---- MODULE Spec2Model ----
(***************************************************************************)
(* The OAuth 2.0 authorization-server layer, the MCP protocol endpoint,    *)
(* its tools and the calendar adapter of the reservations-manager server   *)
(* (server/src/index.ts, server/src/mcp-server.ts,                         *)
(* server/src/calendar-service.ts).  The registry functions imported from  *)
(* ./mcp-oauth.js and the Google credential store of ./google-auth.js are  *)
(* modelled from the design document (sections 3, 4.1, 4.6).               *)
(***************************************************************************)
EXTENDS Integers, Sequences, FiniteSets, TLC

VARIABLES
    clients,   \* registry: clientId -> [secret, redirectUris]
    codes,     \* registry: code -> [clientId, redirectUri, codeChallenge, codeChallengeMethod, expiresAt, consumed]
    tokens,    \* registry: token -> [clientId, expiresAt]
    now,       \* the clock (Date.now())
    grants,    \* history: [via, code, token, at] for every token a /oauth/token response carried
    inflight,  \* the requests received and not yet handled
    last,      \* the most recent request with the response it was answered with
    connected, \* Google credential store: the user ids that have stored Google tokens
    calendarUp, \* the calendar API answers the adapter's calls (it fails them otherwise)
    registrations, \* history: [client_id, metadata] for every 201 response of /oauth/register
    emails,    \* Google credential store: the email stored with a user's tokens
    authExpired, \* the calendar API rejects the stored Google tokens (401)
    calendar,  \* the primary calendar: eventId -> [summary, hasAttendees, attendees]
    reading,   \* respondToInvite calls that have read their event and not yet patched it
    polling,   \* the authorization widget: isPolling, its timers, its unanswered polls
    cards      \* the invite cards on screen: eventId -> [status, chosen, calls, mounted]

vars == <<clients, codes, tokens, now, grants, inflight, last, connected, calendarUp,
          registrations, emails, authExpired, calendar, reading, polling, cards>>

----------------------------------------------------------------------------
(* Bounds of the model *)

MaxClients == 2
MaxCodes == 2
MaxTokens == 2
MaxTime == 2

----------------------------------------------------------------------------
(* Values *)

\* JS undefined (an absent field or header), the empty string and the number
\* 0: all falsy
NoVal == <<>>
EmptyStr == <<"">>
Zero == <<"number", 0>>
Falsy(x) == x \in {NoVal, EmptyStr, Zero}
Truthy(x) == ~Falsy(x)
\* a || b
OrElse(a, b) == IF Truthy(a) THEN a ELSE b

\* opaque identifiers drawn from a strong random source: the k-th value issued
ClientIdOf(k) == <<"client", k>>
SecretOf(k) == <<"secret", k>>
CodeOf(k) == <<"code", k>>
TokenOf(k) == <<"token", k>>

\* the client pre-seeded from configuration
SeedClientId == ClientIdOf(0)
SeedClientSecret == SecretOf(0)
\* values no registry ever issued
UnknownClientId == <<"client", -1>>
WrongSecret == <<"secret", -1>>
UnknownCode == <<"code", -1>>
UnknownToken == <<"token", -1>>
\* generateAccessToken(authClientId || 'chatgpt')
ChatGptClientId == <<"chatgpt">>

UriA == "https://host/cb"
UriB == "https://other/cb"
MalformedUri == "not-a-uri"
NoUri == ""
\* new URL(u) succeeds on an absolute URI and throws on anything else
IsAbsoluteUri(u) == u \in {UriA, UriB}

\* PKCE: S256 digest-and-base64url of a verifier, injective on the verifiers used
S256(v) == <<"S256", v>>
Verifier1 == <<"verifier", 1>>
Verifier2 == <<"verifier", 2>>

\* lifetimes of an authorization code and of an access token, in clock ticks
CodeTTL == 1
TokenTTL == 2

----------------------------------------------------------------------------
(* Credential & Token Registry (./mcp-oauth.js) *)

IssuedCodes == DOMAIN codes
IssuedTokens == DOMAIN tokens
NextCode == CodeOf(Cardinality(DOMAIN codes) + 1)
NextToken == TokenOf(Cardinality(DOMAIN tokens) + 1)
\* a variant that derives the client id from the metadata
NextClientIdFromMetadata == ClientIdOf(1)
NextClientId == ClientIdOf(Cardinality(DOMAIN clients))

Extend(f, k, v) == [x \in DOMAIN f \cup {k} |-> IF x = k THEN v ELSE f[x]]

\* validateClientId(clientId): the client is registered
validateClientId(clientId) == clientId \in DOMAIN clients

\* validateClientCredentials(clientId, clientSecret): the pair matches a
\* registered confidential client
validateClientCredentials(clientId, clientSecret) ==
    /\ clientId \in DOMAIN clients
    /\ Truthy(clients[clientId].secret)
    /\ clients[clientId].secret = clientSecret

\* generateAuthorizationCode: the record stored under a fresh code
NewCodeRecord(clientId, redirectUri, codeChallenge, codeChallengeMethod) ==
    [clientId |-> clientId, redirectUri |-> redirectUri,
     codeChallenge |-> codeChallenge, codeChallengeMethod |-> codeChallengeMethod,
     expiresAt |-> now + CodeTTL, consumed |-> FALSE]

\* the PKCE check: a stored challenge needs a verifier whose transform equals it
PkceOk(rec, codeVerifier) ==
    \/ Falsy(rec.codeChallenge)
    \/ /\ Truthy(codeVerifier)
       /\ S256(codeVerifier) = rec.codeChallenge

\* validateAuthorizationCode(code, clientId, redirectUri, codeVerifier).valid
CodeValid(code, clientId, redirectUri, codeVerifier) ==
    /\ code \in DOMAIN codes
    /\ now < codes[code].expiresAt
    /\ ~codes[code].consumed
    /\ codes[code].clientId = clientId
    /\ codes[code].redirectUri = redirectUri
    /\ PkceOk(codes[code], codeVerifier)

\* validateAuthorizationCode: the code registry after the call; the code is
\* discarded whether or not the redemption succeeds
CodesAfterValidate(code) ==
    IF code \in DOMAIN codes
    THEN [codes EXCEPT ![code].consumed = TRUE]
    ELSE codes

\* generateAccessToken(clientId): the record stored under a fresh token
NewTokenRecord(clientId) == [clientId |-> clientId, expiresAt |-> now + TokenTTL]

\* validateAccessToken(token): the token exists and now < expiresAt
validateAccessToken(token) ==
    /\ token \in DOMAIN tokens
    /\ now < tokens[token].expiresAt

\* getTokenResponse(accessToken)
getTokenResponse(accessToken) ==
    [access_token |-> accessToken, token_type |-> "Bearer", expires_in |-> TokenTTL]

----------------------------------------------------------------------------
(* Initial state: only the pre-seeded client *)

\* an email address: its letters folded to lower case, and whether it is
\* written with upper-case letters
Email(name, upper) == <<"email", name, upper>>
\* a variant: the address as it is written
toLowerCaseAsWritten(email) == email

toLowerCase(email) == IF email = NoVal THEN NoVal ELSE Email(email[2], FALSE)

MyEmail == Email("me", FALSE)
MyEmailAsInvited == Email("me", TRUE)
OtherEmail == Email("other", FALSE)

Event1 == <<"event", 1>>
Event2 == <<"event", 2>>
Event3 == <<"event", 3>>
NoSuchEvent == <<"event", -1>>

\* an entry of event.attendees
Attendee(email, responseStatus, organizer) ==
    [email |-> email, responseStatus |-> responseStatus, organizer |-> organizer]

\* the events of the primary calendar, in the order events.list delivers
\* them: one the user and another guest are invited to, one the user is not
\* invited to, and one that carries no attendees member
EventOrder == <<Event1, Event2, Event3>>

InitialCalendar ==
    [e \in {Event1, Event2, Event3} |->
        CASE e = Event1 ->
                [summary |-> <<"summary", 1>>, hasAttendees |-> TRUE,
                 attendees |-> <<Attendee(OtherEmail, "accepted", TRUE),
                                 Attendee(MyEmailAsInvited, "needsAction", FALSE)>>]
          [] e = Event2 ->
                [summary |-> <<"summary", 2>>, hasAttendees |-> TRUE,
                 attendees |-> <<Attendee(OtherEmail, "needsAction", FALSE)>>]
          [] OTHER ->
                [summary |-> <<"summary", 3>>, hasAttendees |-> FALSE, attendees |-> <<>>]]

\* the authorization widget as it is mounted: not connected, not polling,
\* no timer; the component is AuthStatus.tsx or AuthView of CalendarWidget.tsx
WidgetLoaded(component) ==
    [component |-> component, authenticated |-> FALSE, isPolling |-> FALSE,
     intervals |-> 0, timeouts |-> 0, elapsed |-> 0, due |-> 0, polls |-> 0]

\* no invite list is on screen
NoCards == [e \in {} |-> NoVal]

NoRequest == [ep |-> "none"]

Init ==
    /\ clients = [c \in {SeedClientId} |-> [secret |-> SeedClientSecret, redirectUris |-> {}]]
    /\ codes = [c \in {} |-> NoVal]
    /\ tokens = [t \in {} |-> NoVal]
    /\ now = 0
    /\ grants = {}
    /\ inflight = {}
    /\ last = NoRequest
    /\ connected = {}
    /\ calendarUp = TRUE
    /\ registrations = <<>>
    /\ emails = [u \in {} |-> NoVal]
    /\ authExpired = FALSE
    /\ calendar = InitialCalendar
    /\ reading = {}
    /\ polling = WidgetLoaded("AuthStatus")
    /\ cards = NoCards

Tick ==
    /\ now < MaxTime
    /\ now' = now + 1
    /\ UNCHANGED <<calendar, clients, codes, tokens, grants, last>>

----------------------------------------------------------------------------
(* POST /oauth/register *)

\* registerClient(metadata) rejects metadata whose redirect URIs are missing
\* or malformed
MetadataValid(meta) ==
    /\ Len(meta.redirect_uris) > 0
    /\ \A i \in 1..Len(meta.redirect_uris) : IsAbsoluteUri(meta.redirect_uris[i])

\* registerClient(metadata): the registered client; a secret is generated
\* unless the client declares itself public
NewClientRecord(meta) ==
    [secret |-> IF meta.token_endpoint_auth_method = "none" THEN NoVal
                ELSE SecretOf(Cardinality(DOMAIN clients)),
     redirectUris |-> {meta.redirect_uris[i] : i \in 1..Len(meta.redirect_uris)}]

\* a variant without the catch: whatever the metadata, the client is registered
OAuthRegisterNoCatch(meta) ==
    /\ Cardinality(DOMAIN clients) <= MaxClients
    /\ clients' = Extend(clients, NextClientId, NewClientRecord(meta))
    /\ last' = [ep |-> "register", req |-> meta, status |-> 201, error |-> "",
                out |-> [client_id |-> NextClientId,
                         client_secret |-> NewClientRecord(meta).secret]]
    /\ UNCHANGED <<calendar, codes, tokens, now, grants>>

OAuthRegister(meta) ==
    IF MetadataValid(meta)
    THEN /\ Cardinality(DOMAIN clients) <= MaxClients
         /\ clients' = Extend(clients, NextClientId, NewClientRecord(meta))
         /\ last' = [ep |-> "register", req |-> meta, status |-> 201, error |-> "",
                     out |-> [client_id |-> NextClientId,
                              client_secret |-> NewClientRecord(meta).secret]]
         /\ UNCHANGED <<calendar, codes, tokens, now, grants>>
    ELSE /\ last' = [ep |-> "register", req |-> meta, status |-> 400,
                     error |-> "invalid_client_metadata", out |-> NoVal]
         /\ UNCHANGED <<calendar, clients, codes, tokens, now, grants>>

----------------------------------------------------------------------------
(* GET /oauth/authorize *)

\* a variant that looks at response_type before it looks at the client
AuthorizeErrorReordered(q) ==
    IF q.response_type # "code" THEN "unsupported_response_type"
    ELSE IF Falsy(q.client_id) \/ ~validateClientId(q.client_id) THEN "invalid_client"
    ELSE IF q.redirect_uri = NoUri THEN "invalid_request"
    ELSE ""

\* the first failing check of the authorize request, "" when all pass
AuthorizeError(q) ==
    IF Falsy(q.client_id) \/ ~validateClientId(q.client_id) THEN "invalid_client"
    ELSE IF q.response_type # "code" THEN "unsupported_response_type"
    ELSE IF q.redirect_uri = NoUri THEN "invalid_request"
    ELSE ""

\* redirectUrl: redirect_uri with code set, and state set when it is truthy
RedirectUrl(q, authCode) ==
    [to |-> q.redirect_uri, code |-> authCode,
     state |-> IF Truthy(q.state) THEN q.state ELSE NoVal]

OAuthAuthorize(q) ==
    IF AuthorizeError(q) # ""
    THEN /\ last' = [ep |-> "authorize", req |-> q, status |-> 400,
                     error |-> AuthorizeError(q), out |-> NoVal]
         /\ UNCHANGED <<calendar, clients, codes, tokens, now, grants>>
    ELSE /\ Cardinality(DOMAIN codes) < MaxCodes
         /\ codes' = Extend(codes, NextCode,
                NewCodeRecord(q.client_id, q.redirect_uri, q.code_challenge,
                              q.code_challenge_method))
         /\ last' = IF IsAbsoluteUri(q.redirect_uri)
                    THEN [ep |-> "authorize", req |-> q, status |-> 302, error |-> "",
                          out |-> RedirectUrl(q, NextCode)]
                    \* new URL(redirect_uri) throws: the error handler answers
                    ELSE [ep |-> "authorize", req |-> q, status |-> 500,
                          error |-> "Invalid URL", out |-> NoVal]
         /\ UNCHANGED <<calendar, clients, tokens, now, grants>>

----------------------------------------------------------------------------
(* POST /oauth/token *)

NoHeader == [scheme |-> "none", cred |-> <<>>]
\* Authorization: Basic base64(s_1:s_2:...:s_n), the segments s_i free of ':'
Basic(segments) == [scheme |-> "Basic", cred |-> segments]
Bearer(token) == [scheme |-> "Bearer", cred |-> token]

\* const [headerClientId, headerClientSecret] = credentials.split(':')
headerClientId(h) == IF Len(h.cred) >= 1 THEN h.cred[1] ELSE EmptyStr
headerClientSecret(h) == IF Len(h.cred) >= 2 THEN h.cred[2] ELSE NoVal

authClientId(req) ==
    IF req.authorization.scheme = "Basic"
    THEN OrElse(req.client_id, headerClientId(req.authorization))
    ELSE req.client_id

authClientSecret(req) ==
    IF req.authorization.scheme = "Basic"
    THEN OrElse(req.client_secret, headerClientSecret(req.authorization))
    ELSE req.client_secret

\* the client id handed to validateAuthorizationCode: authClientId || ''
CodeClientId(req) == OrElse(authClientId(req), EmptyStr)

\* variants of the call with a slip in it
ValidationValidUnchecked(req) == TRUE
ValidationValidNoVerifier(req) ==
    CodeValid(req.code, CodeClientId(req), req.redirect_uri, NoVal)
ValidationValidBodyClient(req) ==
    CodeValid(req.code, OrElse(req.client_id, EmptyStr), req.redirect_uri, req.code_verifier)

\* validation.valid of the authorization_code branch
ValidationValid(req) ==
    CodeValid(req.code, CodeClientId(req), req.redirect_uri, req.code_verifier)

\* the client a token is issued to: authClientId || 'chatgpt'
TokenClientId(req) == OrElse(authClientId(req), ChatGptClientId)

TokenFail(req, status, error) ==
    last' = [ep |-> "token", req |-> req, status |-> status, error |-> error, out |-> NoVal]

\* a variant that refreshes the client's token in place when it has one
TokenIssueRefreshing(req, clientId) ==
    LET held == {t \in DOMAIN tokens : tokens[t].clientId = clientId}
        token == IF held = {} THEN NextToken ELSE CHOOSE t \in held : TRUE
    IN  /\ Cardinality(DOMAIN tokens) < MaxTokens
        /\ tokens' = Extend(tokens, token, NewTokenRecord(clientId))
        /\ grants' = grants \cup {[via |-> req.grant_type, code |-> req.code,
                                   token |-> token, at |-> now]}
        /\ last' = [ep |-> "token", req |-> req, status |-> 200, error |-> "",
                    out |-> getTokenResponse(token)]

\* generateAccessToken and getTokenResponse: a fresh token is stored and answered
TokenIssue(req, clientId) ==
    /\ Cardinality(DOMAIN tokens) < MaxTokens
    /\ tokens' = Extend(tokens, NextToken, NewTokenRecord(clientId))
    /\ grants' = grants \cup {[via |-> req.grant_type, code |-> req.code,
                               token |-> NextToken, at |-> now]}
    /\ last' = [ep |-> "token", req |-> req, status |-> 200, error |-> "",
                out |-> getTokenResponse(NextToken)]

\* a variant that answers a failed validation without the registry having
\* discarded the code
AuthorizationCodeGrantKeepingCode(req) ==
    IF Falsy(req.code) \/ req.redirect_uri = NoUri
    THEN /\ TokenFail(req, 400, "invalid_request")
         /\ UNCHANGED <<calendar, clients, codes, tokens, now, grants>>
    ELSE IF ~ValidationValid(req)
    THEN /\ TokenFail(req, 400, "invalid_grant")
         /\ UNCHANGED <<calendar, clients, codes, tokens, now, grants>>
    ELSE /\ codes' = CodesAfterValidate(req.code)
         /\ TokenIssue(req, TokenClientId(req))
         /\ UNCHANGED <<calendar, clients, now>>

AuthorizationCodeGrant(req) ==
    IF Falsy(req.code) \/ req.redirect_uri = NoUri
    THEN /\ TokenFail(req, 400, "invalid_request")
         /\ UNCHANGED <<calendar, clients, codes, tokens, now, grants>>
    ELSE IF ~ValidationValid(req)
    THEN /\ codes' = CodesAfterValidate(req.code)
         /\ TokenFail(req, 400, "invalid_grant")
         /\ UNCHANGED <<calendar, clients, tokens, now, grants>>
    ELSE /\ codes' = CodesAfterValidate(req.code)
         /\ TokenIssue(req, TokenClientId(req))
         /\ UNCHANGED <<calendar, clients, now>>

ClientCredentialsGrant(req) ==
    IF ~validateClientCredentials(authClientId(req), authClientSecret(req))
    THEN /\ TokenFail(req, 401, "invalid_client")
         /\ UNCHANGED <<calendar, clients, codes, tokens, now, grants>>
    ELSE /\ TokenIssue(req, authClientId(req))
         /\ UNCHANGED <<calendar, clients, codes, now>>

\* a variant that takes a missing grant_type for an authorization_code exchange
OAuthTokenDefaultGrant(req) ==
    IF req.grant_type \in {"authorization_code", ""} THEN AuthorizationCodeGrant(req)
    ELSE IF req.grant_type = "client_credentials" THEN ClientCredentialsGrant(req)
    ELSE /\ TokenFail(req, 400, "unsupported_grant_type")
         /\ UNCHANGED <<calendar, clients, codes, tokens, now, grants>>

OAuthToken(req) ==
    IF req.grant_type = "authorization_code" THEN AuthorizationCodeGrant(req)
    ELSE IF req.grant_type = "client_credentials" THEN ClientCredentialsGrant(req)
    ELSE /\ TokenFail(req, 400, "unsupported_grant_type")
         /\ UNCHANGED <<calendar, clients, codes, tokens, now, grants>>

----------------------------------------------------------------------------
(* POST /mcp *)

\* extractBearerToken(header): the token of a Bearer header, null otherwise
extractBearerToken(h) == IF h.scheme = "Bearer" THEN h.cred ELSE NoVal

\* variants of the bearer check with a slip in it
BearerOkPresentOnly(req) == Truthy(extractBearerToken(req.authorization))
BearerOkRawHeader(req) ==
    /\ Truthy(extractBearerToken(req.authorization))
    /\ validateAccessToken(<<"Bearer", extractBearerToken(req.authorization)>>)

\* the bearer check of POST /mcp
BearerOk(req) ==
    /\ Truthy(extractBearerToken(req.authorization))
    /\ validateAccessToken(extractBearerToken(req.authorization))

\* a catalog that lost a tool
ToolCatalogShort == <<"get_pending_reservations", "respond_to_invite">>

\* getTools(): the names of the tool catalog
ToolCatalog == <<"get_pending_reservations", "respond_to_invite", "check_auth_status">>

\* getBaseUrl(req)
BaseUrl == "https://server"

\* const DEFAULT_USER_ID = 'default'
DEFAULT_USER_ID == <<"default">>

\* isAuthenticated(userId): Google tokens are stored for the user
isAuthenticated(userId) == userId \in connected

\* getUserEmail(userId): the email stored with the user's tokens, if any
getUserEmail(userId) == IF userId \in DOMAIN emails THEN emails[userId] ELSE NoVal

\* getAuthUrl(userId): the Google consent URL made for the user
getAuthUrl(userId) == <<"https://accounts.google.com/o/oauth2/v2/auth", userId>>

\* what a call of the calendar adapter comes to: the value it resolves with
\* or the message of the Error it rejects with, and the calendar afterwards
AdapterReturns(value, after) == [ok |-> TRUE, value |-> value, calendar |-> after]
AdapterThrows(message) == [ok |-> FALSE, value |-> message, calendar |-> calendar]

\* error.code of a failing Calendar API call on the event list (0: it succeeds)
ListError == IF authExpired THEN 401 ELSE IF ~calendarUp THEN 500 ELSE 0

\* error.code of a failing Calendar API call on one event (0: it succeeds)
EventError(eventId) ==
    IF authExpired THEN 401
    ELSE IF ~calendarUp THEN 500
    ELSE IF eventId \notin DOMAIN calendar THEN 404
    ELSE 0

\* the index of the first attendee with the user's email (0: none)
RECURSIVE FindAttendee(_, _, _)
FindAttendee(attendees, userEmail, i) ==
    IF i > Len(attendees) THEN 0
    ELSE IF toLowerCase(attendees[i].email) = toLowerCase(userEmail) THEN i
    ELSE FindAttendee(attendees, userEmail, i + 1)

\* a variant that does not look at the response status
IsPendingInviteAnyStatus(event, userEmail) ==
    LET attendees == IF event.hasAttendees THEN event.attendees ELSE <<>>
        i == FindAttendee(attendees, userEmail, 1)
    IN  /\ Truthy(event.summary)
        /\ i # 0
        /\ ~attendees[i].organizer

\* eventToPendingInvite(event, userEmail) returns an invite, not null
IsPendingInvite(event, userEmail) ==
    LET attendees == IF event.hasAttendees THEN event.attendees ELSE <<>>
        i == FindAttendee(attendees, userEmail, 1)
    IN  /\ Truthy(event.summary)
        /\ i # 0
        /\ ~attendees[i].organizer
        /\ attendees[i].responseStatus = "needsAction"

\* the loop of getPendingInvites over the listed events
RECURSIVE PendingInvitesFrom(_, _)
PendingInvitesFrom(i, userEmail) ==
    IF i > Len(EventOrder) THEN <<>>
    ELSE LET e == EventOrder[i]
             rest == PendingInvitesFrom(i + 1, userEmail)
         IN  IF e \in DOMAIN calendar /\ IsPendingInvite(calendar[e], userEmail)
             THEN <<[eventId |-> e, summary |-> calendar[e].summary]>> \o rest
             ELSE rest

\* getPendingInvites(userId, startDate, endDate)
getPendingInvites(userId) ==
    LET userEmail == getUserEmail(userId)
    IN  IF Falsy(userEmail) THEN AdapterThrows(<<"User email not found">>)
        ELSE IF ListError = 401
        THEN AdapterThrows(<<"Authentication expired. Please re-authenticate.">>)
        ELSE IF ListError # 0
        THEN AdapterThrows(<<"Failed to fetch calendar events", <<"code", ListError>>>>)
        ELSE LET invites == PendingInvitesFrom(1, userEmail)
             IN  AdapterReturns([invites |-> invites, totalCount |-> Len(invites)], calendar)

\* event.attendees.map(...): the entries with the user's email get the
\* response, the others are passed on as they were read
updatedAttendees(attendees, userEmail, response) ==
    [i \in DOMAIN attendees |->
        IF toLowerCase(attendees[i].email) = toLowerCase(userEmail)
        THEN [attendees[i] EXCEPT !.responseStatus = response]
        ELSE attendees[i]]

\* events.patch with requestBody {attendees}: the member is replaced
Patched(eventId, attendees) ==
    [calendar EXCEPT ![eventId] = [@ EXCEPT !.hasAttendees = TRUE, !.attendees = attendees]]

\* the Error the catch of respondToInvite throws for an error of the API
RespondError(code) ==
    IF code = 401 THEN <<"Authentication expired. Please re-authenticate.">>
    ELSE IF code = 404 THEN <<"Event not found. It may have been cancelled or deleted.">>
    ELSE <<"Failed to respond to invite", <<"code", code>>>>

\* respondToInvite(userId, eventId, response), with nothing happening
\* between its events.get and its events.patch
respondToInvite(userId, eventId, response) ==
    LET userEmail == getUserEmail(userId)
    IN  IF Falsy(userEmail) THEN AdapterThrows(<<"User email not found">>)
        ELSE IF EventError(eventId) # 0 THEN AdapterThrows(RespondError(EventError(eventId)))
        ELSE IF ~calendar[eventId].hasAttendees
        THEN AdapterThrows(<<"Failed to respond to invite", <<"Event has no attendees">>>>)
        ELSE AdapterReturns(
                [success |-> TRUE, eventId |-> eventId, newStatus |-> response,
                 eventSummary |-> calendar[eventId].summary],
                Patched(eventId,
                        updatedAttendees(calendar[eventId].attendees, userEmail, response)))

\* params.arguments of tools/call: absent, or an object with its fields
NoArguments == [given |-> FALSE, event_id |-> NoVal, response |-> ""]
Arguments(event_id, response) == [given |-> TRUE, event_id |-> event_id, response |-> response]

\* what a call of handleMCPRequest comes to: the value it resolves with or
\* the error it rejects with, the tool handler it invoked ("" for none), the
\* user id that handler was given, whether it called isAuthenticated, the
\* calendar adapter function it called ("" for none) with the user id it
\* passed, and the calendar afterwards
Outcome(threw, value, tool, userId, authChecked, adapter, after) ==
    [threw |-> threw, value |-> value, tool |-> tool, userId |-> userId,
     authChecked |-> authChecked, adapter |-> adapter,
     adapterUser |-> IF adapter = "" THEN NoVal ELSE userId, calendar |-> after]

Returns(value) == Outcome(FALSE, value, "", NoVal, FALSE, "", calendar)
Throws(message) == Outcome(TRUE, message, "", NoVal, FALSE, "", calendar)
ToolReturns(tool, userId, authChecked, adapter, isError, content, after) ==
    Outcome(FALSE, [isError |-> isError, structuredContent |-> content],
            tool, userId, authChecked, adapter, after)
ToolThrows(tool, userId, message) == Outcome(TRUE, message, tool, userId, FALSE, "", calendar)

\* reading a property of undefined
TypeError == <<"TypeError">>

\* a variant that goes to the calendar without looking for the authorization
handleGetPendingReservationsNoGate(args, userId) ==
    IF ~args.given
    THEN ToolReturns("get_pending_reservations", userId, FALSE, "", TRUE,
                     [error |-> TypeError], calendar)
    ELSE LET result == getPendingInvites(userId)
         IN  IF result.ok
             THEN ToolReturns("get_pending_reservations", userId, FALSE, "getPendingInvites",
                              FALSE, result.value, calendar)
             ELSE ToolReturns("get_pending_reservations", userId, FALSE, "getPendingInvites",
                              TRUE, [error |-> result.value], calendar)

handleGetPendingReservations(args, userId) ==
    IF ~isAuthenticated(userId)
    THEN ToolReturns("get_pending_reservations", userId, TRUE, "", FALSE,
                     [authRequired |-> TRUE, authUrl |-> getAuthUrl(userId)], calendar)
    \* inside the try: args.start_date of an absent args throws, and is caught
    ELSE IF ~args.given
    THEN ToolReturns("get_pending_reservations", userId, TRUE, "", TRUE,
                     [error |-> TypeError], calendar)
    ELSE LET result == getPendingInvites(userId)
         IN  IF result.ok
             THEN ToolReturns("get_pending_reservations", userId, TRUE, "getPendingInvites",
                              FALSE, result.value, calendar)
             ELSE ToolReturns("get_pending_reservations", userId, TRUE, "getPendingInvites",
                              TRUE, [error |-> result.value], calendar)

\* a variant without the try around the adapter call
handleRespondToInviteNoCatch(args, userId) ==
    IF ~args.given
    THEN ToolThrows("respond_to_invite", userId, TypeError)
    ELSE IF Falsy(args.event_id)
    THEN ToolReturns("respond_to_invite", userId, FALSE, "", TRUE,
                     [error |-> <<"event_id is required">>, success |-> FALSE], calendar)
    ELSE IF args.response \notin {"accepted", "declined", "tentative"}
    THEN ToolReturns("respond_to_invite", userId, FALSE, "", TRUE,
                     [error |-> <<"Invalid response value">>, success |-> FALSE], calendar)
    ELSE IF ~isAuthenticated(userId)
    THEN ToolReturns("respond_to_invite", userId, TRUE, "", TRUE,
                     [authRequired |-> TRUE, authUrl |-> getAuthUrl(userId),
                      success |-> FALSE], calendar)
    ELSE LET result == respondToInvite(userId, args.event_id, args.response)
         IN  IF result.ok
             THEN ToolReturns("respond_to_invite", userId, TRUE, "respondToInvite", FALSE,
                              [success |-> TRUE, response |-> args.response,
                               eventId |-> args.event_id,
                               eventSummary |-> result.value.eventSummary],
                              result.calendar)
             ELSE Outcome(TRUE, result.value, "respond_to_invite", userId, TRUE,
                          "respondToInvite", calendar)

handleRespondToInvite(args, userId) ==
    \* before the try: args.event_id of an absent args throws
    IF ~args.given
    THEN ToolThrows("respond_to_invite", userId, TypeError)
    ELSE IF Falsy(args.event_id)
    THEN ToolReturns("respond_to_invite", userId, FALSE, "", TRUE,
                     [error |-> <<"event_id is required">>, success |-> FALSE], calendar)
    ELSE IF args.response \notin {"accepted", "declined", "tentative"}
    THEN ToolReturns("respond_to_invite", userId, FALSE, "", TRUE,
                     [error |-> <<"Invalid response value">>, success |-> FALSE], calendar)
    ELSE IF ~isAuthenticated(userId)
    THEN ToolReturns("respond_to_invite", userId, TRUE, "", TRUE,
                     [authRequired |-> TRUE, authUrl |-> getAuthUrl(userId),
                      success |-> FALSE], calendar)
    ELSE LET result == respondToInvite(userId, args.event_id, args.response)
         IN  IF result.ok
             THEN ToolReturns("respond_to_invite", userId, TRUE, "respondToInvite", FALSE,
                              [success |-> TRUE, response |-> args.response,
                               eventId |-> args.event_id,
                               eventSummary |-> result.value.eventSummary],
                              result.calendar)
             ELSE ToolReturns("respond_to_invite", userId, TRUE, "respondToInvite", TRUE,
                              [error |-> result.value, success |-> FALSE], calendar)

\* a variant that treats a connection without an email as a failure
handleCheckAuthStatusStrict(userId) ==
    IF isAuthenticated(userId) /\ Falsy(getUserEmail(userId))
    THEN ToolReturns("check_auth_status", userId, TRUE, "", TRUE,
                     [error |-> <<"User email not found">>], calendar)
    ELSE IF isAuthenticated(userId)
    THEN ToolReturns("check_auth_status", userId, TRUE, "", FALSE,
                     [authenticated |-> TRUE, email |-> getUserEmail(userId)], calendar)
    ELSE ToolReturns("check_auth_status", userId, TRUE, "", FALSE,
                     [authenticated |-> FALSE, authUrl |-> getAuthUrl(userId)], calendar)

handleCheckAuthStatus(userId) ==
    IF isAuthenticated(userId)
    THEN ToolReturns("check_auth_status", userId, TRUE, "", FALSE,
                     [authenticated |-> TRUE, email |-> getUserEmail(userId)], calendar)
    ELSE ToolReturns("check_auth_status", userId, TRUE, "", FALSE,
                     [authenticated |-> FALSE, authUrl |-> getAuthUrl(userId)], calendar)

\* typeof subject === 'string'
IsString(x) == x # NoVal /\ x[1] # "number"

\* extractUserId(params)
extractUserId(params) ==
    IF Truthy(params.subject) /\ IsString(params.subject)
    THEN params.subject
    ELSE DEFAULT_USER_ID

\* the user a tool runs for: _meta?.['openai/subject'] || userId
ToolUserId(params) == OrElse(params.subject, extractUserId(params))

\* a variant that treats an unknown tool the way the dispatcher treats an
\* unknown method
ToolsCallThrowing(params) ==
    CASE params.name = "get_pending_reservations" ->
            handleGetPendingReservations(params.arguments, ToolUserId(params))
      [] params.name = "respond_to_invite" ->
            handleRespondToInvite(params.arguments, ToolUserId(params))
      [] params.name = "check_auth_status" -> handleCheckAuthStatus(ToolUserId(params))
      [] OTHER -> Throws(<<"Unknown tool", params.name>>)

\* case 'tools/call'
ToolsCall(params) ==
    CASE params.name = "get_pending_reservations" ->
            handleGetPendingReservations(params.arguments, ToolUserId(params))
      [] params.name = "respond_to_invite" ->
            handleRespondToInvite(params.arguments, ToolUserId(params))
      [] params.name = "check_auth_status" -> handleCheckAuthStatus(ToolUserId(params))
      [] OTHER -> ToolReturns("", NoVal, FALSE, "", TRUE,
                              [error |-> <<"Unknown tool", params.name>>], calendar)

WidgetUri == <<"ui://widget/calendar-widget.html">>
OtherUri == <<"https://host/page.html">>

\* case 'resources/read': uri.match(...) of an absent uri throws
ResourcesRead(params) ==
    IF params.uri = NoVal THEN Throws(TypeError)
    ELSE IF params.uri = WidgetUri THEN Returns([contents |-> <<WidgetUri>>])
    ELSE Returns([contents |-> <<>>])

\* the methods the dispatcher has a case for
KnownMethods ==
    {"initialize", "initialized", "notifications/initialized", "ping", "shutdown",
     "tools/list", "tools/call", "resources/list", "resources/read",
     "resources/templates/list", "prompts/list", "prompts/get", "completion/complete",
     "logging/setLevel"}

\* a variant whose default case answers with an empty result
handleMCPRequestLenient(method, params) ==
    IF method = "tools/call" THEN ToolsCall(params)
    ELSE IF method = "resources/read" THEN ResourcesRead(params)
    ELSE IF method = "prompts/get" THEN Throws(<<"Prompt not found">>)
    ELSE Returns(<<>>)

\* a variant whose tools/list case falls through into tools/call
handleMCPRequestFallthrough(method, params) ==
    IF method \in {"tools/list", "tools/call"} THEN ToolsCall(params)
    ELSE IF method = "resources/read" THEN ResourcesRead(params)
    ELSE IF method \in KnownMethods \ {"prompts/get"} THEN Returns(<<>>)
    ELSE Throws(<<"Unknown MCP method", method>>)

\* handleMCPRequest(method, params, userId)
handleMCPRequest(method, params) ==
    CASE method = "initialize" ->
            Returns([protocolVersion |-> OrElse(params.protocolVersion, <<"2024-11-05">>),
                     serverInfo |-> "reservations-manager"])
      [] method \in {"initialized", "notifications/initialized", "shutdown", "logging/setLevel"} ->
            Returns(<<>>)
      [] method = "ping" -> Returns([status |-> "ok"])
      [] method = "tools/list" -> Returns([tools |-> ToolCatalog])
      [] method = "tools/call" -> ToolsCall(params)
      [] method = "resources/list" -> Returns([resources |-> <<WidgetUri>>])
      [] method = "resources/read" -> ResourcesRead(params)
      [] method = "resources/templates/list" -> Returns([resourceTemplates |-> <<>>])
      [] method = "prompts/list" -> Returns([prompts |-> <<>>])
      [] method = "prompts/get" -> Throws(<<"Prompt not found">>)
      [] method = "completion/complete" -> Returns([values |-> <<>>])
      [] OTHER -> Throws(<<"Unknown MCP method", method>>)

\* GET /.well-known/oauth-authorization-server
AuthorizationServerMetadata ==
    [issuer |-> BaseUrl, token_endpoint |-> "https://server/oauth/token",
     grant_types_supported |-> {"authorization_code", "client_credentials"}]

\* WWW-Authenticate: Bearer resource="<baseUrl>/mcp", as_uri="<baseUrl>"
Challenge == <<"Bearer", "https://server/mcp", BaseUrl>>

\* (the dispatch is awaited once: its outcome r is one value, bound once)
\* a response of POST /mcp: the HTTP status, the JSON-RPC error code (0 for
\* none), whether the body has a result and an error member, the message,
\* the id, the number of times the handler sent a response, and what the
\* dispatcher did (dispatched: handleMCPRequest was called)
McpAnswer(req, status, code, challenge, r, dispatched) ==
    [sent |-> [ep |-> "mcp", req |-> req, status |-> status, code |-> code,
               wwwAuthenticate |-> challenge,
               hasResult |-> (code = 0), hasError |-> (code # 0),
               out |-> r.value, id |-> OrElse(req.id, NoVal), sends |-> 1,
               dispatched |-> dispatched, tool |-> r.tool, adapter |-> r.adapter,
               userId |-> r.userId, adapterUser |-> r.adapterUser,
               authChecked |-> r.authChecked, changed |-> (r.calendar # calendar)],
     calendar |-> r.calendar]

\* a variant with no catch around the dispatch: a throw leaves the request
\* without a response
McpResponseNoCatch(req) ==
    IF ~BearerOk(req)
    THEN McpAnswer(req, 401, -32001, Challenge, Throws(<<"Unauthorized">>), FALSE)
    ELSE IF req.method = ""
    THEN McpAnswer(req, 400, -32600, NoVal, Throws(<<"Invalid request">>), FALSE)
    ELSE CHOOSE answer \in
             {IF r.threw
              THEN [McpAnswer(req, 200, -32603, NoVal, r, TRUE) EXCEPT !.sent.sends = 0]
              ELSE McpAnswer(req, 200, 0, NoVal, r, TRUE) :
                 r \in {handleMCPRequest(req.method, req.params)}} : TRUE

\* a variant that looks for the method before it looks at the bearer token
McpResponseMethodFirst(req) ==
    IF req.method = ""
    THEN McpAnswer(req, 400, -32600, NoVal, Throws(<<"Invalid request">>), FALSE)
    ELSE IF ~BearerOk(req)
    THEN McpAnswer(req, 401, -32001, Challenge, Throws(<<"Unauthorized">>), FALSE)
    ELSE CHOOSE answer \in
             {McpAnswer(req, 200, IF r.threw THEN -32603 ELSE 0, NoVal, r, TRUE) :
                 r \in {handleMCPRequest(req.method, req.params)}} : TRUE

\* the response of POST /mcp
McpResponse(req) ==
    IF ~BearerOk(req)
    THEN McpAnswer(req, 401, -32001, Challenge, Throws(<<"Unauthorized">>), FALSE)
    ELSE IF req.method = ""
    THEN McpAnswer(req, 400, -32600, NoVal, Throws(<<"Invalid request">>), FALSE)
    ELSE CHOOSE answer \in
             {McpAnswer(req, 200, IF r.threw THEN -32603 ELSE 0, NoVal, r, TRUE) :
                 r \in {handleMCPRequest(req.method, req.params)}} : TRUE

Mcp(req) ==
    /\ \E answer \in {McpResponse(req)} :
          /\ last' = answer.sent
          /\ calendar' = answer.calendar
    /\ UNCHANGED <<clients, codes, tokens, now, grants>>

----------------------------------------------------------------------------
(* The requests the environment sends *)

TokenReq(grant, id, secret, header, code, uri, verifier) ==
    [grant_type |-> grant, client_id |-> id, client_secret |-> secret,
     authorization |-> header, code |-> code, redirect_uri |-> uri,
     code_verifier |-> verifier]

AuthorizeReq(id, rtype, uri, state, challenge) ==
    [client_id |-> id, response_type |-> rtype, redirect_uri |-> uri, state |-> state,
     code_challenge |-> challenge,
     code_challenge_method |-> IF challenge = NoVal THEN NoVal ELSE <<"S256">>]

CodeInputs == {CodeOf(k) : k \in 1..MaxCodes} \cup {UnknownCode}
TokenInputs == {TokenOf(k) : k \in 1..MaxTokens} \cup {UnknownToken}

SeedBasic == Basic(<<SeedClientId, SeedClientSecret>>)

\* how a token request names its client: <<client_id field, Authorization header>>
ClientNamings ==
    {<<SeedClientId, NoHeader>>, <<NoVal, NoHeader>>, <<UnknownClientId, NoHeader>>,
     <<NoVal, SeedBasic>>, <<NoVal, Basic(<<UnknownClientId, SeedClientSecret>>)>>,
     <<UnknownClientId, SeedBasic>>}

\* the authorization_code exchanges: every way of naming the client, every
\* code, both redirect URIs, every verifier
CodeGrantReqs ==
    {TokenReq("authorization_code", n[1], NoVal, n[2], c, u, v) :
        n \in ClientNamings, c \in CodeInputs, u \in {UriA, UriB},
        v \in {NoVal, Verifier1, Verifier2}}

\* authorize requests of the pre-seeded client, with and without PKCE
GrantAuthorizeReqs ==
    {AuthorizeReq(SeedClientId, "code", UriA, NoVal, ch) : ch \in {NoVal, S256(Verifier1)}}

\* a request handled as soon as it is received; the OAuth routes do not touch
\* the Google credential store or the calendar
Direct(A) ==
    A /\ UNCHANGED <<inflight, connected, calendarUp, registrations, emails, authExpired, reading, polling, cards>>

\* POST /oauth/register handled as soon as it is received; a 201 response
\* is entered in the history
Register(meta) ==
    /\ OAuthRegister(meta)
    /\ registrations' = IF last'.status = 201
                        THEN Append(registrations,
                                    [client_id |-> last'.out.client_id, metadata |-> meta])
                        ELSE registrations
    /\ UNCHANGED <<inflight, connected, calendarUp, emails, authExpired, reading, polling, cards>>

----------------------------------------------------------------------------
(* The authorization-code grant: authorize and exchange, in any order *)

NextGrant ==
    \/ Direct(Tick)
    \/ \E q \in GrantAuthorizeReqs : Direct(OAuthAuthorize(q))
    \/ \E req \in CodeGrantReqs : Direct(OAuthToken(req))

SpecGrant == Init /\ [][NextGrant]_vars

----------------------------------------------------------------------------
(* Concurrent token requests.  Express reads and parses each request body  *)
(* asynchronously; the /oauth/token handler itself has no await, so it     *)
(* runs to completion on the event loop once the body is there.            *)

MaxInflight == 2
Connections == 1..MaxInflight

\* a request's body has arrived on a connection; its handler has not run yet
Receive(conn, req) ==
    /\ \A r \in inflight : r.conn # conn
    /\ inflight' = inflight \cup {[conn |-> conn, req |-> req]}
    /\ UNCHANGED <<clients, codes, tokens, now, grants, last, connected, calendarUp,
                   registrations, emails, authExpired, calendar, reading, polling, cards>>

\* the event loop runs the handler of one received request
Handle(r) ==
    /\ r \in inflight
    /\ inflight' = inflight \ {r}
    /\ OAuthToken(r.req)
    /\ UNCHANGED <<connected, calendarUp, registrations, emails, authExpired, reading, polling, cards>>

\* exchanges that are correct for a code of the pre-seeded client, or wrong
\* in the redirect URI
ConcurrentReqs ==
    {TokenReq("authorization_code", SeedClientId, NoVal, NoHeader, c, u, v) :
        c \in {CodeOf(k) : k \in 1..MaxCodes}, u \in {UriA, UriB}, v \in {NoVal, Verifier1}}

NextConcurrent ==
    \/ Direct(Tick)
    \/ \E q \in GrantAuthorizeReqs : Direct(OAuthAuthorize(q))
    \/ \E conn \in Connections, req \in ConcurrentReqs : Receive(conn, req)
    \/ \E r \in inflight : Handle(r)

SpecConcurrent == Init /\ [][NextConcurrent]_vars

----------------------------------------------------------------------------
(* End to end: register, authorize, exchange, call the protocol endpoint *)

RegisterReqs ==
    {[redirect_uris |-> <<UriA>>, token_endpoint_auth_method |-> "client_secret_basic"],
     [redirect_uris |-> <<UriA>>, token_endpoint_auth_method |-> "none"],
     [redirect_uris |-> <<>>, token_endpoint_auth_method |-> "client_secret_basic"]}

\* the registrations of the end-to-end flow: a confidential client, and
\* metadata without redirect URIs
FlowRegisterReqs ==
    {[redirect_uris |-> <<UriA>>, token_endpoint_auth_method |-> "client_secret_basic"],
     [redirect_uris |-> <<>>, token_endpoint_auth_method |-> "client_secret_basic"]}

AuthorizeReqs ==
    {AuthorizeReq(id, "code", UriA, NoVal, NoVal) : id \in {ClientIdOf(1), UnknownClientId}}

\* grant_type absent: the body field is undefined, equal to no grant name
NoGrantType == ""
UnsupportedGrants == {NoGrantType, "refresh_token", "Authorization_Code"}

\* requests that would be granted a token but for their grant_type: an
\* exchange of the first code by its client, and the pre-seeded client's
\* credentials
UnsupportedGrantReqs ==
    {TokenReq(g, ClientIdOf(1), NoVal, NoHeader, CodeOf(1), UriA, NoVal) : g \in UnsupportedGrants}
    \cup {TokenReq(g, NoVal, NoVal, SeedBasic, NoVal, NoUri, NoVal) : g \in UnsupportedGrants}

TokenReqs ==
    {TokenReq("authorization_code", ClientIdOf(1), NoVal, NoHeader, CodeOf(k), UriA, NoVal) :
        k \in 1..MaxCodes}
    \cup {TokenReq("client_credentials", NoVal, NoVal, SeedBasic, NoVal, NoUri, NoVal),
          TokenReq("refresh_token", SeedClientId, SeedClientSecret, NoHeader, NoVal, NoUri, NoVal)}
    \cup UnsupportedGrantReqs

\* params of a request: absent fields are undefined
McpParams(protocolVersion, name, arguments, uri, subject) ==
    [protocolVersion |-> protocolVersion, name |-> name, arguments |-> arguments,
     uri |-> uri, subject |-> subject]
NoParams == McpParams(NoVal, "", NoArguments, NoVal, NoVal)

McpReq(header, method, id) ==
    [authorization |-> header, method |-> method, id |-> id, params |-> NoParams]

\* the Authorization headers a protocol call may carry: none, Basic
\* credentials, a token never issued, an authorization code, issued tokens
McpHeaders ==
    {NoHeader, SeedBasic, Bearer(NoVal), Bearer(CodeOf(1))}
        \cup {Bearer(t) : t \in TokenInputs}

McpReqs ==
    {McpReq(h, m, id) : h \in McpHeaders,
        m \in {"", "tools/list", "ping", "prompts/get", "bogus"},
        id \in {NoVal, <<"id", 1>>}}

Next ==
    \/ Direct(Tick)
    \/ \E meta \in FlowRegisterReqs : Register(meta)
    \/ \E q \in AuthorizeReqs : Direct(OAuthAuthorize(q))
    \/ \E req \in TokenReqs : Direct(OAuthToken(req))
    \/ \E req \in McpReqs : Direct(Mcp(req))

Spec == Init /\ [][Next]_vars

----------------------------------------------------------------------------
(* The client-credentials grant, with every way of presenting credentials *)

\* Basic credentials: the right pair, the right pair followed by ":junk", a
\* user-id without a colon, the pair of the registered client, an unknown id
BasicInputs ==
    {NoHeader, SeedBasic,
     Basic(<<SeedClientId, SeedClientSecret, <<"junk">>>>),
     Basic(<<SeedClientId>>),
     Basic(<<ClientIdOf(1), SecretOf(1)>>),
     Basic(<<UnknownClientId, SeedClientSecret>>)}

ClientCredentialsReqs ==
    {TokenReq("client_credentials", id, secret, h, NoVal, NoUri, NoVal) :
        id \in {NoVal, SeedClientId, ClientIdOf(1), UnknownClientId},
        secret \in {NoVal, SeedClientSecret, SecretOf(1), WrongSecret},
        h \in BasicInputs}

NextClientCredentials ==
    \/ Direct(Tick)
    \/ \E meta \in RegisterReqs : Register(meta)
    \/ \E req \in ClientCredentialsReqs : Direct(OAuthToken(req))

SpecClientCredentials == Init /\ [][NextClientCredentials]_vars

----------------------------------------------------------------------------
(* Properties of the authorization-code grant *)

\* the client a token request names: the client_id field, else the user-id
\* of its Basic credentials
NamedClient(req) ==
    IF Truthy(req.client_id) THEN req.client_id
    ELSE IF req.authorization.scheme = "Basic" /\ Len(req.authorization.cred) >= 1
         THEN req.authorization.cred[1]
         ELSE NoVal

\* the verifier of the request answers the challenge stored with code c
VerifierMatches(req, c) ==
    Truthy(codes[c].codeChallenge) =>
        (Truthy(req.code_verifier) /\ S256(req.code_verifier) = codes[c].codeChallenge)

\* the request names the client and the redirect URI code c was issued for
\* and answers its challenge
MatchesCode(req, c) ==
    /\ NamedClient(req) = codes[c].clientId
    /\ req.redirect_uri = codes[c].redirectUri
    /\ VerifierMatches(req, c)

\* this step is /oauth/token handling the authorization_code exchange last'.req
CodeExchangeStep ==
    /\ last'.ep = "token"
    /\ last'.req.grant_type = "authorization_code"
    /\ Truthy(last'.req.code)
    /\ last'.req.redirect_uri # NoUri
    /\ OAuthToken(last'.req)

RejectedInvalidGrant ==
    /\ last'.status = 400
    /\ last'.error = "invalid_grant"
    /\ tokens' = tokens
    /\ grants' = grants

GrantedFreshToken ==
    /\ last'.status = 200
    /\ last'.out.access_token \in DOMAIN tokens' \ DOMAIN tokens
    /\ Truthy(last'.out.access_token)

GrantsOf(c) == {g \in grants : g.code = c}

\* C1: once an authorization_code exchange has succeeded for a code, every
\* later exchange presenting that code, whatever its other parameters, is
\* answered 400 invalid_grant and issues no access token.
C1_SingleUse ==
    [][(CodeExchangeStep /\ GrantsOf(last'.req.code) # {}) => RejectedInvalidGrant]_vars

\* an exchange with the client, redirect URI and verifier of an unexpired
\* code that was already exchanged successfully is rejected
C1_Witness ==
    /\ last.ep = "token"
    /\ last.error = "invalid_grant"
    /\ last.req.code \in DOMAIN codes
    /\ MatchesCode(last.req, last.req.code)
    /\ now < codes[last.req.code].expiresAt
    /\ GrantsOf(last.req.code) # {}

C6_RedirectBinding ==
    [][(CodeExchangeStep /\ last'.req.code \in DOMAIN codes
            /\ last'.req.redirect_uri # codes[last'.req.code].redirectUri)
        => RejectedInvalidGrant]_vars

\* an exchange that is right in everything but the redirect_uri is rejected
C6_Witness ==
    /\ last.ep = "token"
    /\ last.error = "invalid_grant"
    /\ last.req.code \in DOMAIN codes
    /\ last.req.redirect_uri = UriB
    /\ codes[last.req.code].redirectUri = UriA
    /\ NamedClient(last.req) = codes[last.req.code].clientId
    /\ VerifierMatches(last.req, last.req.code)
    /\ now < codes[last.req.code].expiresAt
    /\ GrantsOf(last.req.code) = {}

\* C7: the first exchange of an unexpired code yields valid (a token) when
\* the request names the issuing client (by client_id or, without one, by
\* Basic credentials), the issuing redirect URI and a verifier answering the
\* stored challenge; it yields invalid_grant when the client is altered
\* (another id, none at all, another id in the Basic credentials), the
\* redirect URI is altered, or the verifier no longer answers the challenge.
C7_RoundTrip ==
    [][(CodeExchangeStep /\ last'.req.code \in DOMAIN codes
            /\ ~codes[last'.req.code].consumed
            /\ now < codes[last'.req.code].expiresAt) =>
        IF MatchesCode(last'.req, last'.req.code)
        THEN GrantedFreshToken
        ELSE RejectedInvalidGrant]_vars

\* a request naming its client only by Basic credentials exchanged a code
C7_Witness ==
    /\ last.ep = "token"
    /\ last.status = 200
    /\ Falsy(last.req.client_id)
    /\ last.req.authorization = SeedBasic
    /\ Truthy(codes[last.req.code].codeChallenge)

\* C8: once the clock has reached the expiresAt of a code, every exchange of
\* that code is answered 400 invalid_grant and issues no access token.
C8_CodeExpiry ==
    [][(CodeExchangeStep /\ last'.req.code \in DOMAIN codes
            /\ now >= codes[last'.req.code].expiresAt)
        => RejectedInvalidGrant]_vars

\* a code never exchanged is presented, correctly, at its expiresAt
C8_Witness ==
    /\ last.ep = "token"
    /\ last.error = "invalid_grant"
    /\ last.req.code \in DOMAIN codes
    /\ MatchesCode(last.req, last.req.code)
    /\ now = codes[last.req.code].expiresAt
    /\ GrantsOf(last.req.code) = {}

\* C2: however the arrivals and the handler runs of concurrent token
\* requests interleave, at most one exchange succeeds for each authorization
\* code: no code ever has two grants, and a handler run that finds a grant
\* for its code issues nothing.  (Check and mark are one handler run: the
\* handler has no await between them.)
C2_AtomicRedemption ==
    /\ [](\A c \in DOMAIN codes : Cardinality(GrantsOf(c)) <= 1)
    /\ [][\A r \in inflight :
            (Handle(r) /\ GrantsOf(r.req.code) # {}) => RejectedInvalidGrant]_vars

\* two requests, both correct for the same unexpired code, were in flight
\* together; one has been granted and the other is still waiting
C2_Witness ==
    /\ last.ep = "token"
    /\ last.status = 200
    /\ \E r \in inflight :
          /\ r.req = last.req
          /\ MatchesCode(r.req, r.req.code)
          /\ now < codes[r.req.code].expiresAt
    /\ Cardinality(GrantsOf(last.req.code)) = 1

----------------------------------------------------------------------------
(* Properties of the protocol endpoint and of the end-to-end flow *)

\* this step is POST /mcp answering the request last'.req
McpStep ==
    /\ last'.ep = "mcp"
    /\ Direct(Mcp(last'.req))

\* the token was carried by a /oauth/token response and its lifetime,
\* counted from that response, has not run out
IssuedAndFresh(t) == \E g \in grants : g.token = t /\ now < g.at + TokenTTL

\* the request carries "Authorization: Bearer t" with validateAccessToken(t)
CarriesValidBearer(req) ==
    /\ req.authorization.scheme = "Bearer"
    /\ validateAccessToken(req.authorization.cred)

\* C3: a POST /mcp whose Authorization header is absent, is not a Bearer
\* header, or carries a token validateAccessToken rejects is answered 401
\* with a WWW-Authenticate challenge naming the issuer URI and a JSON-RPC
\* error -32001, and handleMCPRequest (and with it every method handler,
\* tool handler and adapter call) is not invoked.
C3_BearerGate ==
    [][(McpStep /\ ~CarriesValidBearer(last'.req)) =>
        /\ last'.status = 401
        /\ last'.code = -32001
        /\ Len(last'.wwwAuthenticate) = 3
        /\ last'.wwwAuthenticate[3] = AuthorizationServerMetadata.issuer
        /\ ~last'.dispatched]_vars

\* a tools/list call presenting an issued token after its expiry is refused
C3_Witness ==
    /\ last.ep = "mcp"
    /\ last.status = 401
    /\ last.req.method = "tools/list"
    /\ last.req.authorization.scheme = "Bearer"
    /\ last.req.authorization.cred \in DOMAIN tokens
    /\ now >= tokens[last.req.authorization.cred].expiresAt

\* the strings a caller may present as a bearer token
BearerCandidates ==
    TokenInputs \cup {NoVal} \cup DOMAIN codes \cup DOMAIN clients

\* C4: in every reachable state validateAccessToken(t) is true exactly for
\* the tokens t that a /oauth/token response issued less than the token
\* lifetime ago; it is false for strings never issued as a token and for
\* issued tokens at or after their expiresAt; and POST /mcp accepts a
\* request exactly when its bearer token is such a token.
C4_ValidateAccessToken ==
    /\ [](\A t \in BearerCandidates : validateAccessToken(t) <=> IssuedAndFresh(t))
    /\ [](\A t \in DOMAIN tokens : \E g \in grants :
              g.token = t /\ tokens[t].expiresAt = g.at + TokenTTL)
    /\ [][McpStep =>
            (last'.status # 401 <=>
                (last'.req.authorization.scheme = "Bearer"
                    /\ IssuedAndFresh(last'.req.authorization.cred)))]_vars

\* one issued token has reached its expiresAt and is rejected while another
\* is still accepted
C4_Witness ==
    \E t1, t2 \in DOMAIN tokens :
        /\ now = tokens[t1].expiresAt
        /\ ~validateAccessToken(t1)
        /\ validateAccessToken(t2)
        /\ last.ep = "mcp"
        /\ last.status = 200
        /\ last.req.authorization = Bearer(t2)

\* C9: a successful /oauth/token response carries a non-empty access_token,
\* token_type Bearer and expires_in; and a tools/list call presenting, before
\* its expiry, a token obtained by exchanging an authorization code is
\* answered with the catalog of the three tools, not with 401.
C9_EndToEnd ==
    /\ []((last.ep = "token" /\ last.status = 200) =>
            /\ Truthy(last.out.access_token)
            /\ last.out.access_token \in DOMAIN tokens
            /\ last.out.token_type = "Bearer"
            /\ last.out.expires_in > 0)
    /\ [][(McpStep /\ last'.req.method = "tools/list"
              /\ last'.req.authorization.scheme = "Bearer"
              /\ \E g \in grants :
                    /\ g.via = "authorization_code"
                    /\ g.token = last'.req.authorization.cred
                    /\ now < g.at + TokenTTL) =>
            /\ last'.status = 200
            /\ last'.code = 0
            /\ last'.out.tools =
                 <<"get_pending_reservations", "respond_to_invite", "check_auth_status">>]_vars

\* a dynamically registered client obtained a code, exchanged it, and its
\* tools/list call was answered with the catalog
C9_Witness ==
    /\ last.ep = "mcp"
    /\ last.status = 200
    /\ last.code = 0
    /\ last.req.method = "tools/list"
    /\ \E g \in grants :
          /\ g.via = "authorization_code"
          /\ g.token = last.req.authorization.cred
          /\ codes[g.code].clientId = ClientIdOf(1)
          /\ ClientIdOf(1) \in DOMAIN clients

----------------------------------------------------------------------------
(* Properties of the client-credentials grant *)

\* the secret a request presents, as its ':'-free segments: the
\* client_secret field, else the password of its Basic credentials, which
\* is everything after the first ':' (RFC 7617)
PresentedSecret(req) ==
    IF Truthy(req.client_secret) THEN <<req.client_secret>>
    ELSE IF req.authorization.scheme = "Basic" /\ Len(req.authorization.cred) >= 2
         THEN SubSeq(req.authorization.cred, 2, Len(req.authorization.cred))
         ELSE <<>>

\* the presented client id and secret are those of a registered
\* confidential client
PresentsRegisteredPair(req) ==
    /\ NamedClient(req) \in DOMAIN clients
    /\ Truthy(clients[NamedClient(req)].secret)
    /\ PresentedSecret(req) = <<clients[NamedClient(req)].secret>>

\* this step is /oauth/token handling the client_credentials request last'.req
ClientCredentialsStep ==
    /\ last'.ep = "token"
    /\ last'.req.grant_type = "client_credentials"
    /\ OAuthToken(last'.req)

\* C10: a client_credentials request is granted a token only when the client
\* id and secret it presents (in the body or as Basic credentials) are those
\* of a registered confidential client; every other request is answered 401
\* invalid_client and the set of issued tokens is unchanged.
C10_ClientCredentials ==
    [][(ClientCredentialsStep /\ ~PresentsRegisteredPair(last'.req)) =>
        /\ last'.status = 401
        /\ last'.error = "invalid_client"
        /\ tokens' = tokens]_vars

----------------------------------------------------------------------------
(* The authorize step with every combination of failing checks *)

\* response_type absent: the query field is undefined, not === 'code'
NoResponseType == ""
State1 == <<"state", 1>>

\* every combination of client (absent, registered, unknown), response_type
\* (code, token, absent) and redirect_uri (absent, absolute, malformed); and
\* valid requests with an empty and a non-empty state
WideAuthorizeReqs ==
    {AuthorizeReq(id, rt, u, NoVal, NoVal) :
        id \in {NoVal, SeedClientId, UnknownClientId},
        rt \in {"code", "token", NoResponseType},
        u \in {NoUri, UriA, MalformedUri}}
    \cup {AuthorizeReq(SeedClientId, "code", UriA, st, NoVal) : st \in {EmptyStr, State1}}

\* exchanges of the codes by the pre-seeded client, with the right and with
\* another redirect URI, and a request with an unsupported grant
AuthorizeTokenReqs ==
    {TokenReq("authorization_code", SeedClientId, NoVal, NoHeader, CodeOf(k), u, NoVal) :
        k \in 1..MaxCodes, u \in {UriA, UriB}}
    \cup {TokenReq("refresh_token", SeedClientId, SeedClientSecret, NoHeader, NoVal, NoUri, NoVal)}

NextAuthorize ==
    \/ Direct(Tick)
    \/ \E meta \in RegisterReqs : Register(meta)
    \/ \E q \in WideAuthorizeReqs : Direct(OAuthAuthorize(q))
    \/ \E req \in AuthorizeTokenReqs : Direct(OAuthToken(req))

SpecAuthorize == Init /\ [][NextAuthorize]_vars

----------------------------------------------------------------------------
(* Dynamic client registration, followed by authorize calls *)

\* metadata of a confidential and of a public client, metadata without
\* redirect URIs, with a malformed one, and with a malformed one after a
\* well-formed one
WideRegisterReqs ==
    {[redirect_uris |-> uris, token_endpoint_auth_method |-> m] :
        uris \in {<<UriA>>, <<>>, <<MalformedUri>>, <<UriA, MalformedUri>>},
        m \in {"client_secret_basic", "none"}}

RegisterAuthorizeReqs ==
    {AuthorizeReq(id, "code", UriA, NoVal, NoVal) :
        id \in {ClientIdOf(1), ClientIdOf(2), UnknownClientId}}

NextRegister ==
    \/ Direct(Tick)
    \/ \E meta \in WideRegisterReqs : Register(meta)
    \/ \E q \in RegisterAuthorizeReqs : Direct(OAuthAuthorize(q))

SpecRegister == Init /\ [][NextRegister]_vars

----------------------------------------------------------------------------
(* The protocol endpoint with its tools, the Google connection and the     *)
(* calendar API behind them                                                *)

\* GET /oauth/callback with the code of a consent flow that was started from
\* authUrl: handleOAuthCallback stores Google tokens and the email of the
\* Google account for DEFAULT_USER_ID, or throws and nothing is stored; the
\* handler reads the code and nothing else of the request
GoogleCallbackFrom(authUrl, exchanged, email) ==
    /\ connected' = IF exchanged THEN connected \cup {DEFAULT_USER_ID} ELSE connected
    /\ emails' = IF exchanged THEN Extend(emails, DEFAULT_USER_ID, email) ELSE emails
    /\ last' = [ep |-> "callback", status |-> 302, flow |-> authUrl,
                out |-> IF exchanged THEN "/?auth=success" ELSE "/?error=auth_failed"]
    /\ UNCHANGED <<clients, codes, tokens, now, grants, inflight, calendarUp, registrations,
                   authExpired, calendar, reading, polling, cards>>

\* the callback of a consent flow started at GET /auth/google, which
\* redirects to getAuthUrl(DEFAULT_USER_ID)
GoogleCallback(exchanged, email) ==
    GoogleCallbackFrom(getAuthUrl(DEFAULT_USER_ID), exchanged, email)

\* POST /auth/logout: deleteTokens(DEFAULT_USER_ID)
AuthLogout ==
    /\ connected' = connected \ {DEFAULT_USER_ID}
    /\ emails' = [u \in DOMAIN emails \ {DEFAULT_USER_ID} |-> emails[u]]
    /\ last' = [ep |-> "logout", status |-> 200, out |-> "Logged out successfully"]
    /\ UNCHANGED <<clients, codes, tokens, now, grants, inflight, calendarUp, registrations,
                   authExpired, calendar, reading, polling, cards>>

\* the calendar API starts or stops answering
CalendarFlip ==
    /\ calendarUp' = ~calendarUp
    /\ UNCHANGED <<clients, codes, tokens, now, grants, inflight, last, connected,
                   registrations, emails, authExpired, calendar, reading, polling, cards>>

McpCall(header, method, params, id) ==
    [authorization |-> header, method |-> method, id |-> id, params |-> params]

User1 == <<"user", 1>>
Id1 == <<"id", 1>>

\* method and params of the requests: every kind of method, one the
\* dispatcher has no case for, near misses of a known one, none at all;
\* tools/call of every tool and of an unknown one, with and without
\* arguments, event_id and a valid response, for the default and for a
\* named subject; resources/read with and without a uri
McpShapes ==
    {<<m, NoParams>> : m \in {"initialize", "ping", "tools/list", "resources/list",
                              "prompts/get", "bogus", "tools/read", "PING", ""}}
    \cup {<<"initialize", McpParams(<<"2025-03-26">>, "", NoArguments, NoVal, NoVal)>>}
    \cup {<<"tools/call", McpParams(NoVal, n, a, NoVal, sub)>> :
            n \in {"get_pending_reservations", "respond_to_invite", "check_auth_status",
                   "no_such_tool"},
            a \in {NoArguments, Arguments(Event1, "accepted"), Arguments(NoVal, "accepted"),
                   Arguments(Event1, "maybe")},
            sub \in {NoVal, User1}}
    \cup {<<"resources/read", McpParams(NoVal, "", NoArguments, u, NoVal)>> :
            u \in {NoVal, WidgetUri, OtherUri}}

\* the shapes sent with every kind of id, with and without a bearer token
IdShapes ==
    {<<"ping", NoParams>>, <<"", NoParams>>, <<"bogus", NoParams>>,
     <<"resources/read", NoParams>>}

WideMcpReqs ==
    {McpCall(Bearer(TokenOf(1)), sh[1], sh[2], Id1) : sh \in McpShapes}
    \cup {McpCall(h, sh[1], sh[2], id) :
            h \in {NoHeader, Bearer(TokenOf(1))}, sh \in IdShapes,
            id \in {NoVal, Zero, EmptyStr, Id1}}

SeedCredentialsReq == TokenReq("client_credentials", NoVal, NoVal, SeedBasic, NoVal, NoUri, NoVal)

NextMcp ==
    \/ Direct(Tick)
    \/ Direct(OAuthToken(SeedCredentialsReq))
    \/ \E exchanged \in BOOLEAN : GoogleCallback(exchanged, MyEmail)
    \/ AuthLogout
    \/ CalendarFlip
    \/ \E req \in WideMcpReqs : Direct(Mcp(req))

SpecMcp == Init /\ [][NextMcp]_vars

----------------------------------------------------------------------------
(* Concurrent protocol calls.  The /mcp handler is async: it awaits        *)
(* handleMCPRequest, which awaits the tool handlers and their calendar     *)
(* calls, so other requests arrive and are answered in between.            *)

\* the event loop resumes the handler of one received /mcp request, which
\* sends its response
McpHandle(r) ==
    /\ r \in inflight
    /\ inflight' = inflight \ {r}
    /\ Mcp(r.req)
    /\ UNCHANGED <<connected, calendarUp, registrations, emails, authExpired, reading, polling, cards>>

\* calls carrying the first token: a plain method, an unknown one, tools
\* called without and with arguments, a resource read without a uri
LiveMcpReqs ==
    {McpCall(Bearer(TokenOf(1)), sh[1], sh[2], Id1) : sh \in
        {<<"ping", NoParams>>, <<"bogus", NoParams>>,
         <<"tools/call", McpParams(NoVal, "respond_to_invite", NoArguments, NoVal, NoVal)>>,
         <<"tools/call", McpParams(NoVal, "get_pending_reservations", NoArguments, NoVal, NoVal)>>,
         <<"tools/call", McpParams(NoVal, "respond_to_invite", Arguments(Event1, "accepted"),
                                   NoVal, NoVal)>>,
         <<"resources/read", NoParams>>}}

\* a request is waiting on the connection
Pending(conn) == \E r \in inflight : r.conn = conn

HandlePending(conn) == \E r \in inflight : r.conn = conn /\ McpHandle(r)

NextMcpLive ==
    \/ Direct(Tick)
    \/ Direct(OAuthToken(SeedCredentialsReq))
    \/ \E exchanged \in BOOLEAN : GoogleCallback(exchanged, MyEmail)
    \/ CalendarFlip
    \/ \E conn \in Connections, req \in LiveMcpReqs : Receive(conn, req)
    \/ \E conn \in Connections : HandlePending(conn)

\* the event loop runs every handler whose awaited call has settled, and
\* the calendar calls a handler awaits do settle
SpecMcpLive ==
    /\ Init
    /\ [][NextMcpLive]_vars
    /\ \A conn \in Connections : WF_vars(HandlePending(conn))

----------------------------------------------------------------------------
(* The tools.  Every tools/call below carries a valid token; the subject,  *)
(* the tool and its arguments vary, and so do the Google connection, the   *)
(* health of the calendar API and the answers of the other guest.          *)

\* the calendar API starts or stops rejecting the stored Google tokens
AuthExpiryFlip ==
    /\ authExpired' = ~authExpired
    /\ UNCHANGED <<clients, codes, tokens, now, grants, inflight, last, connected,
                   calendarUp, registrations, emails, calendar, reading, polling, cards>>

\* another guest answers an invitation from their own calendar
OtherResponds(eventId, response) ==
    /\ eventId \in DOMAIN calendar
    /\ calendar[eventId].hasAttendees
    /\ calendar' = Patched(eventId,
                           updatedAttendees(calendar[eventId].attendees, OtherEmail, response))
    /\ UNCHANGED <<clients, codes, tokens, now, grants, inflight, last, connected,
                   calendarUp, registrations, emails, authExpired, reading, polling, cards>>

Number7 == <<"number", 7>>

ToolCall(name, arguments, subject) ==
    McpCall(Bearer(TokenOf(1)), "tools/call", McpParams(NoVal, name, arguments, NoVal, subject),
            Id1)

\* respond_to_invite without arguments, for every kind of event with two
\* responses, and with a missing or empty event_id or a response outside the
\* enumeration
RespondArguments ==
    {NoArguments}
    \cup {Arguments(e, r) : e \in {Event1, Event2, Event3, NoSuchEvent},
                            r \in {"accepted", "declined"}}
    \cup {Arguments(Event1, "tentative"), Arguments(Event1, "maybe"), Arguments(Event1, ""),
          Arguments(NoVal, "accepted"), Arguments(EmptyStr, "accepted"),
          Arguments(NoVal, "maybe")}

\* the tool calls: for no subject, an empty one, a named one and one that is
\* not a string
ToolReqs ==
    {ToolCall("respond_to_invite", a, sub) : a \in RespondArguments, sub \in {NoVal, User1}}
    \cup {ToolCall("respond_to_invite", Arguments(Event1, "accepted"), sub) :
            sub \in {EmptyStr, Number7}}
    \cup {ToolCall("get_pending_reservations", a, sub) :
            a \in {NoArguments, Arguments(NoVal, "")},
            sub \in {NoVal, EmptyStr, User1, Number7}}
    \cup {ToolCall("check_auth_status", NoArguments, sub) :
            sub \in {NoVal, EmptyStr, User1, Number7}}
    \cup {ToolCall("no_such_tool", a, NoVal) : a \in {NoArguments, Arguments(Event1, "accepted")}}

NextTools ==
    \/ Direct(OAuthToken(SeedCredentialsReq))
    \/ \E exchanged \in BOOLEAN, email \in {MyEmail, NoVal} : GoogleCallback(exchanged, email)
    \/ AuthLogout
    \/ CalendarFlip
    \/ AuthExpiryFlip
    \/ \E response \in {"accepted", "declined"} : OtherResponds(Event1, response)
    \/ \E req \in ToolReqs : Direct(Mcp(req))

SpecTools == Init /\ [][NextTools]_vars

----------------------------------------------------------------------------
(* respond_to_invite step by step.  respondToInvite awaits events.get,     *)
(* maps the attendees it read and awaits events.patch; other requests and  *)
(* other guests act in between.                                            *)

\* the handler of a respond_to_invite request runs up to the answer of
\* events.get: the adapter holds the event it read and the user's email
RespondGet(conn, req) ==
    LET userId == ToolUserId(req.params)
        args == req.params.arguments
    IN  /\ \A call \in reading : call.conn # conn
        /\ BearerOk(req)
        /\ req.method = "tools/call" /\ req.params.name = "respond_to_invite"
        /\ respondToInvite(userId, args.event_id, args.response).ok
        /\ handleRespondToInvite(args, userId).adapter = "respondToInvite"
        /\ reading' = reading \cup {[conn |-> conn, req |-> req, userId |-> userId,
                                     userEmail |-> getUserEmail(userId),
                                     event |-> calendar[args.event_id]]}
        /\ UNCHANGED <<clients, codes, tokens, now, grants, inflight, last, connected,
                       calendarUp, registrations, emails, authExpired, calendar, polling,
                       cards>>

\* the result of respond_to_invite once events.patch has answered
RespondOutcome(call) ==
    LET args == call.req.params.arguments
        code == EventError(args.event_id)
    IN  IF code # 0
        THEN ToolReturns("respond_to_invite", call.userId, TRUE, "respondToInvite", TRUE,
                         [error |-> RespondError(code), success |-> FALSE], calendar)
        ELSE ToolReturns("respond_to_invite", call.userId, TRUE, "respondToInvite", FALSE,
                         [success |-> TRUE, response |-> args.response,
                          eventId |-> args.event_id, eventSummary |-> call.event.summary],
                         Patched(args.event_id,
                                 updatedAttendees(call.event.attendees, call.userEmail,
                                                  args.response)))

\* events.patch is sent with the attendees mapped from the event that was
\* read, and the request is answered
RespondPatch(call) ==
    /\ call \in reading
    /\ reading' = reading \ {call}
    /\ LET answer == McpAnswer(call.req, 200, 0, NoVal, RespondOutcome(call), TRUE)
       IN  /\ last' = answer.sent
           /\ calendar' = answer.calendar
    /\ UNCHANGED <<clients, codes, tokens, now, grants, inflight, connected, calendarUp,
                   registrations, emails, authExpired, polling, cards>>

\* two answers of the user to the invitation
RespondReqs == {ToolCall("respond_to_invite", Arguments(Event1, r), NoVal) :
                    r \in {"accepted", "declined"}}

NextRespond ==
    \/ Direct(OAuthToken(SeedCredentialsReq))
    \/ \E exchanged \in BOOLEAN : GoogleCallback(exchanged, MyEmail)
    \/ CalendarFlip
    \/ \E response \in {"declined", "tentative"} : OtherResponds(Event1, response)
    \/ \E req \in RespondReqs : Direct(Mcp(req))
    \/ \E conn \in Connections, req \in RespondReqs : RespondGet(conn, req)
    \/ \E call \in reading : RespondPatch(call)

SpecRespond == Init /\ [][NextRespond]_vars

----------------------------------------------------------------------------
(* Properties of the token endpoint's fallthrough *)

\* this step is /oauth/token answering the request last'.req
TokenStep ==
    /\ last'.ep = "token"
    /\ OAuthToken(last'.req)

\* C11: POST /oauth/token with a grant_type other than authorization_code or
\* client_credentials, a missing grant_type included, is answered 400
\* unsupported_grant_type, consumes no authorization code (the code registry
\* is unchanged) and issues no access token.
C11_UnsupportedGrant ==
    [][(TokenStep /\ last'.req.grant_type \notin {"authorization_code", "client_credentials"}) =>
        /\ last'.status = 400
        /\ last'.error = "unsupported_grant_type"
        /\ codes' = codes
        /\ tokens' = tokens
        /\ grants' = grants]_vars

\* a request without grant_type presents an unused, unexpired code with the
\* client and redirect URI it was issued for, and is refused; the code is
\* still unused
C11_Witness ==
    /\ last.ep = "token"
    /\ last.error = "unsupported_grant_type"
    /\ last.req.grant_type = NoGrantType
    /\ last.req.code \in DOMAIN codes
    /\ MatchesCode(last.req, last.req.code)
    /\ ~codes[last.req.code].consumed
    /\ now < codes[last.req.code].expiresAt

----------------------------------------------------------------------------
(* Properties of the authorize step *)

\* this step is /oauth/authorize answering the request last'.req
AuthorizeStep ==
    /\ last'.ep = "authorize"
    /\ OAuthAuthorize(last'.req)

RefusedAuthorize(error) ==
    /\ last'.status = 400
    /\ last'.error = error
    /\ codes' = codes

ClientKnown(q) == Truthy(q.client_id) /\ q.client_id \in DOMAIN clients

\* C12: GET /oauth/authorize fails with invalid_client when client_id is
\* absent or not registered; otherwise with unsupported_response_type when
\* response_type is not "code"; otherwise with invalid_request when
\* redirect_uri is missing; and in each failing case no code is created.
C12_AuthorizeValidation ==
    [][AuthorizeStep =>
        LET q == last'.req
        IN  /\ ~ClientKnown(q) => RefusedAuthorize("invalid_client")
            /\ (ClientKnown(q) /\ q.response_type # "code")
                   => RefusedAuthorize("unsupported_response_type")
            /\ (ClientKnown(q) /\ q.response_type = "code" /\ q.redirect_uri = NoUri)
                   => RefusedAuthorize("invalid_request")]_vars

\* a request failing all three checks is answered with the first one
C12_Witness ==
    /\ last.ep = "authorize"
    /\ last.error = "invalid_client"
    /\ last.req.client_id = UnknownClientId
    /\ last.req.response_type = "token"
    /\ last.req.redirect_uri = NoUri

\* C13: on a successful GET /oauth/authorize the redirect target is the
\* presented redirect_uri with a freshly issued code, and it carries the
\* state exactly as the caller supplied it when the caller supplied one (an
\* empty one included), and no state when the caller supplied none.
C13_StateEcho ==
    [][(AuthorizeStep /\ last'.status = 302) =>
        LET q == last'.req
        IN  /\ last'.out.to = q.redirect_uri
            /\ last'.out.code \in DOMAIN codes' \ DOMAIN codes
            /\ last'.out.state = q.state]_vars

\* this step is an OAuth endpoint answering the request last'.req
OAuthStep ==
    \/ last'.ep = "register" /\ OAuthRegister(last'.req)
    \/ AuthorizeStep
    \/ TokenStep

\* C14: whenever /oauth/register, /oauth/authorize or /oauth/token answers
\* with anything but success (201, 302, 200), the registries of clients,
\* codes and tokens are what they were before the request; an authorize
\* request with a malformed redirect_uri leaves no code stored.
C14_NoMutationOnFailure ==
    [][(OAuthStep /\ last'.status \notin {200, 201, 302}) =>
        /\ clients' = clients
        /\ codes' = codes
        /\ tokens' = tokens]_vars

----------------------------------------------------------------------------
(* Properties of dynamic client registration *)

RegisteredIds == {registrations[i].client_id : i \in 1..Len(registrations)}

\* C15: the client ids returned by successful registrations are pairwise
\* distinct, also for identical metadata, and none is the id of the
\* pre-seeded client.
C15_FreshClientIds ==
    /\ \A i, j \in 1..Len(registrations) :
          i # j => registrations[i].client_id # registrations[j].client_id
    /\ SeedClientId \notin RegisteredIds

\* two registrations with identical metadata have succeeded
C15_Witness ==
    /\ Len(registrations) = 2
    /\ registrations[1].metadata = registrations[2].metadata
    /\ registrations[1].client_id \in DOMAIN clients
    /\ registrations[2].client_id \in DOMAIN clients

\* this step is /oauth/register answering the request last'.req
RegisterStep ==
    /\ last'.ep = "register"
    /\ OAuthRegister(last'.req)

\* the metadata has no redirect URI, or one that is not an absolute URI
LacksWellFormedUris(meta) ==
    \/ meta.redirect_uris = <<>>
    \/ \E i \in 1..Len(meta.redirect_uris) : meta.redirect_uris[i] \notin {UriA, UriB}

\* C16: POST /oauth/register with no redirect URI or with a malformed one is
\* answered 400 invalid_client_metadata and adds no client; a valid request
\* is answered 201 with a client id that is now registered, and a following
\* /oauth/authorize call naming a client so registered is accepted (302).
C16_RegistrationValidation ==
    /\ [][RegisterStep =>
            IF LacksWellFormedUris(last'.req)
            THEN /\ last'.status = 400
                 /\ last'.error = "invalid_client_metadata"
                 /\ clients' = clients
            ELSE /\ last'.status = 201
                 /\ last'.out.client_id \in DOMAIN clients' \ DOMAIN clients]_vars
    /\ [][(AuthorizeStep /\ last'.req.client_id \in RegisteredIds
              /\ last'.req.response_type = "code" /\ last'.req.redirect_uri = UriA) =>
            /\ last'.status = 302
            /\ last'.out.code \in DOMAIN codes']_vars

\* metadata with a malformed second redirect URI was refused after a client
\* had registered, and that client is the only one registered
C16_Witness ==
    /\ last.ep = "register"
    /\ last.status = 400
    /\ last.req.redirect_uris = <<UriA, MalformedUri>>
    /\ Len(registrations) = 1
    /\ DOMAIN clients = {SeedClientId, registrations[1].client_id}
    /\ \E c \in DOMAIN codes : codes[c].clientId = registrations[1].client_id

----------------------------------------------------------------------------
(* Properties of the dispatcher *)

\* nothing but the response changes in this step
OnlyAnswers ==
    UNCHANGED <<clients, codes, tokens, now, grants, inflight, connected, calendarUp,
                registrations, emails, authExpired, calendar, reading, polling, cards>>

\* C18: an authenticated POST /mcp without a method is answered with JSON-RPC
\* error -32600 and neither the dispatcher nor a handler is invoked; the
\* bearer check comes first, so a request with neither a valid token nor a
\* method is answered -32001.
C18_MissingMethod ==
    [][(McpStep /\ last'.req.method = "") =>
        IF CarriesValidBearer(last'.req)
        THEN /\ last'.code = -32600
             /\ last'.hasError /\ ~last'.hasResult
             /\ ~last'.dispatched
             /\ last'.tool = "" /\ last'.adapter = ""
        ELSE /\ last'.code = -32001
             /\ last'.status = 401
             /\ ~last'.dispatched]_vars

\* a request with a valid token and no method has been answered -32600
C18_Witness ==
    /\ last.ep = "mcp"
    /\ last.code = -32600
    /\ last.req.method = ""
    /\ last.req.authorization.scheme = "Bearer"
    /\ validateAccessToken(last.req.authorization.cred)

\* the methods the protocol names: lifecycle, tool, resource, prompt,
\* completion and logging
ProtocolMethods ==
    {"initialize", "initialized", "notifications/initialized", "ping", "shutdown"}
    \cup {"tools/list", "tools/call"}
    \cup {"resources/list", "resources/read", "resources/templates/list"}
    \cup {"prompts/list", "prompts/get"}
    \cup {"completion/complete", "logging/setLevel"}

\* C19: an authenticated POST /mcp whose method is none of the methods the
\* dispatcher handles is answered, once, with an error (code -32603) whose
\* message is "Unknown MCP method: <method>"; no tool handler runs, no
\* adapter function is called, and nothing but the response changes.
C19_UnknownMethod ==
    [][(McpStep /\ CarriesValidBearer(last'.req) /\ last'.req.method # ""
            /\ last'.req.method \notin ProtocolMethods) =>
        /\ last'.sends = 1
        /\ last'.hasError /\ ~last'.hasResult
        /\ last'.code = -32603
        /\ last'.out = <<"Unknown MCP method", last'.req.method>>
        /\ last'.tool = "" /\ last'.adapter = ""
        /\ OnlyAnswers]_vars

\* a near miss of a known method, sent with a valid token while the user is
\* connected to Google, has been answered with the unknown-method error
C19_Witness ==
    /\ last.ep = "mcp"
    /\ last.req.method = "tools/read"
    /\ last.code = -32603
    /\ validateAccessToken(last.req.authorization.cred)
    /\ DEFAULT_USER_ID \in connected

\* C20: every response of POST /mcp to a request that supplies an id, the
\* number 0 and the empty string included, carries that id.
C20_IdPreserved ==
    [][(McpStep /\ last'.req.id # NoVal) => last'.id = last'.req.id]_vars

\* the dispatch of the request ends in an exception that leaves the method
\* or tool handler: a method without a case, prompts/get, respond_to_invite
\* without an arguments object, resources/read without a uri
RaisesInHandler(req) ==
    \/ req.method \notin ProtocolMethods
    \/ req.method = "prompts/get"
    \/ /\ req.method = "tools/call"
       /\ req.params.name = "respond_to_invite"
       /\ ~req.params.arguments.given
    \/ /\ req.method = "resources/read"
       /\ req.params.uri = NoVal

----------------------------------------------------------------------------
(* Properties of the tools *)

\* this step is POST /mcp answering, for a valid token, a tools/call of the
\* named tool
ToolStep(name) ==
    /\ McpStep
    /\ CarriesValidBearer(last'.req)
    /\ last'.req.method = "tools/call"
    /\ last'.req.params.name = name

Responses == {"accepted", "declined", "tentative"}

\* the arguments carry no event_id, or an empty one
LacksEventId(args) == ~args.given \/ args.event_id \in {NoVal, EmptyStr}

\* the arguments carry no response, or one outside the enumeration
LacksResponse(args) == ~args.given \/ args.response \notin Responses

\* the result is a structured validation error
IsValidationError(answer) ==
    /\ answer.hasResult /\ ~answer.hasError
    /\ answer.out.isError
    /\ DOMAIN answer.out.structuredContent = {"error", "success"}
    /\ answer.out.structuredContent.error \in {<<"event_id is required">>,
                                               <<"Invalid response value">>}

\* C21: a tools/call of respond_to_invite whose event_id is missing or
\* empty, or whose response is not accepted, declined or tentative, returns
\* a structured validation error, whether or not the user is authorized,
\* without a lookup of the authorization and without an adapter call.
C21_ValidatesBeforeActing ==
    [][(ToolStep("respond_to_invite")
            /\ (LacksEventId(last'.req.params.arguments)
                \/ LacksResponse(last'.req.params.arguments))) =>
        /\ IsValidationError(last')
        /\ ~last'.authChecked
        /\ last'.adapter = ""
        /\ OnlyAnswers]_vars

\* the subject a tools/call is made for: the openai/subject of its metadata
\* when that is a non-empty string, the default identity otherwise
CallSubject(req) ==
    LET subject == req.params.subject
    IN  IF subject \notin {NoVal, EmptyStr} /\ subject[1] # "number"
        THEN subject
        ELSE DEFAULT_USER_ID

\* the answer is a result that is not flagged as an error and whose payload
\* is {authRequired: true, authUrl} with a non-empty authUrl
IsAuthorizationRequired(answer) ==
    /\ answer.hasResult /\ ~answer.hasError
    /\ ~answer.out.isError
    /\ DOMAIN answer.out.structuredContent = {"authRequired", "authUrl"}
    /\ answer.out.structuredContent.authRequired
    /\ answer.out.structuredContent.authUrl \notin {NoVal, EmptyStr}

\* C22: a tools/call of get_pending_reservations for a subject without
\* calendar authorization returns a result that is not an error, with the
\* payload {authRequired: true, authUrl} and a non-empty authUrl, and calls
\* no adapter function.
C22_PendingUnauthorized ==
    [][(ToolStep("get_pending_reservations") /\ ~isAuthenticated(CallSubject(last'.req))) =>
        /\ IsAuthorizationRequired(last')
        /\ last'.adapter = ""
        /\ OnlyAnswers]_vars

\* get_pending_reservations, called with arguments for the default subject
\* before any Google connection, has been answered with the consent URL
C22_Witness ==
    /\ last.ep = "mcp"
    /\ last.req.method = "tools/call"
    /\ last.req.params.name = "get_pending_reservations"
    /\ last.req.params.arguments.given
    /\ last.req.params.subject = NoVal
    /\ validateAccessToken(last.req.authorization.cred)
    /\ DEFAULT_USER_ID \notin connected
    /\ last.hasResult
    /\ last.out.structuredContent = [authRequired |-> TRUE, authUrl |-> getAuthUrl(DEFAULT_USER_ID)]

\* the arguments pass the validation of respond_to_invite
ValidRespondArguments(args) ==
    /\ args.given
    /\ args.event_id \notin {NoVal, EmptyStr}
    /\ args.response \in Responses

\* C23: respond_to_invite with valid arguments for a subject without
\* calendar authorization returns the payload get_pending_reservations
\* returns in that case ({authRequired: true, authUrl}, as a result that is
\* not flagged as an error) and calls no adapter function.
C23_RespondUnauthorized ==
    [][(ToolStep("respond_to_invite")
            /\ ValidRespondArguments(last'.req.params.arguments)
            /\ ~isAuthenticated(CallSubject(last'.req))) =>
        /\ IsAuthorizationRequired(last')
        /\ last'.adapter = ""]_vars

\* C26: check_auth_status returns, for every user id it is called with and
\* in every state, a result that is not an error: {authenticated: true,
\* email} when the user is authorized and {authenticated: false, authUrl}
\* otherwise; it calls no adapter function and changes nothing but the
\* response.
C26_CheckAuthStatus ==
    [][ToolStep("check_auth_status") =>
        /\ last'.hasResult /\ ~last'.hasError
        /\ ~last'.out.isError
        /\ last'.out.structuredContent =
              IF isAuthenticated(last'.userId)
              THEN [authenticated |-> TRUE, email |-> getUserEmail(last'.userId)]
              ELSE [authenticated |-> FALSE, authUrl |-> getAuthUrl(last'.userId)]
        /\ last'.adapter = ""
        /\ OnlyAnswers]_vars

\* check_auth_status has answered for a connected user whose connection has
\* no email, while the calendar API is down and rejects the Google tokens
C26_Witness ==
    /\ last.ep = "mcp"
    /\ last.req.method = "tools/call"
    /\ last.req.params.name = "check_auth_status"
    /\ validateAccessToken(last.req.authorization.cred)
    /\ last.userId \in connected
    /\ getUserEmail(last.userId) = NoVal
    /\ ~calendarUp /\ authExpired
    /\ last.hasResult
    /\ last.out.structuredContent.authenticated

RegisteredTools == {"get_pending_reservations", "respond_to_invite", "check_auth_status"}

\* C27: a tools/call whose name is none of the three registered tools is
\* answered with a JSON-RPC result that carries a structured error naming
\* the tool (isError true), not with a JSON-RPC error; no tool handler runs
\* and no adapter function is called.
C27_UnknownTool ==
    [][(McpStep /\ CarriesValidBearer(last'.req) /\ last'.req.method = "tools/call"
            /\ last'.req.params.name \notin RegisteredTools) =>
        /\ last'.hasResult /\ ~last'.hasError /\ last'.code = 0
        /\ last'.out.isError
        /\ last'.out.structuredContent.error = <<"Unknown tool", last'.req.params.name>>
        /\ last'.tool = "" /\ last'.adapter = "" /\ ~last'.authChecked
        /\ OnlyAnswers]_vars

\* a call of a tool that does not exist, made with arguments while the user
\* is connected, has been answered with a result
C27_Witness ==
    /\ last.ep = "mcp"
    /\ last.req.method = "tools/call"
    /\ last.req.params.name = "no_such_tool"
    /\ last.req.params.arguments.given
    /\ validateAccessToken(last.req.authorization.cred)
    /\ DEFAULT_USER_ID \in connected
    /\ last.hasResult
    /\ last.out.isError

\* C28: for every tools/call of a registered tool, the tool handler, and
\* every adapter call it makes, uses as user identity the subject of the
\* call metadata when that is a non-empty string and "default" otherwise.
C28_SubjectSelection ==
    [][(McpStep /\ CarriesValidBearer(last'.req) /\ last'.req.method = "tools/call"
            /\ last'.req.params.name \in RegisteredTools) =>
        /\ last'.userId = CallSubject(last'.req)
        /\ last'.adapterUser \in {NoVal, CallSubject(last'.req)}]_vars

ExpiredMessage == <<"Authentication expired. Please re-authenticate.">>
NotFoundMessage == <<"Event not found. It may have been cancelled or deleted.">>

\* the call reaches the calendar adapter: it passes the handler's validation
\* and its user is authorized
ReachesAdapter(req, userId) ==
    /\ isAuthenticated(userId)
    /\ req.params.arguments.given
    /\ req.params.name = "respond_to_invite" => ValidRespondArguments(req.params.arguments)

\* the adapter call made for the request raises an error: the user's email
\* is missing, the calendar authorization has expired, the calendar API
\* fails, or the event is not found or has no attendee list
AdapterFails(req, userId) ==
    \/ getUserEmail(userId) \in {NoVal, EmptyStr}
    \/ authExpired
    \/ ~calendarUp
    \/ /\ req.params.name = "respond_to_invite"
       /\ \/ req.params.arguments.event_id \notin DOMAIN calendar
          \/ ~calendar[req.params.arguments.event_id].hasAttendees

\* the message of the error the adapter raises for the request
IsAdapterMessage(message, req, userId) ==
    IF getUserEmail(userId) \in {NoVal, EmptyStr} THEN message = <<"User email not found">>
    ELSE IF authExpired THEN message = ExpiredMessage
    ELSE IF calendarUp /\ req.params.arguments.event_id \notin DOMAIN calendar
    THEN message = NotFoundMessage
    ELSE message[1] = IF req.params.name = "respond_to_invite"
                      THEN "Failed to respond to invite"
                      ELSE "Failed to fetch calendar events"

\* C25: when the calendar adapter raises an error during
\* get_pending_reservations or respond_to_invite, the tools/call is answered
\* once with a JSON-RPC result whose payload carries {error: message} and
\* isError true, never with a JSON-RPC error.
C25_AdapterFailuresInResult ==
    [][((ToolStep("get_pending_reservations") \/ ToolStep("respond_to_invite"))
            /\ ReachesAdapter(last'.req, last'.userId)
            /\ AdapterFails(last'.req, last'.userId)) =>
        /\ last'.sends = 1
        /\ last'.hasResult /\ ~last'.hasError /\ last'.code = 0
        /\ last'.out.isError
        /\ "error" \in DOMAIN last'.out.structuredContent
        /\ IsAdapterMessage(last'.out.structuredContent.error, last'.req, last'.userId)
        /\ last'.adapter # ""
        /\ OnlyAnswers]_vars

\* respond_to_invite has been answered, for an event that does not exist,
\* with the adapter's not-found message in a result
C25_Witness ==
    /\ last.ep = "mcp"
    /\ last.req.method = "tools/call"
    /\ last.req.params.name = "respond_to_invite"
    /\ last.req.params.arguments.event_id = NoSuchEvent
    /\ last.adapter = "respondToInvite"
    /\ last.hasResult
    /\ last.out.isError
    /\ last.out.structuredContent.error = NotFoundMessage

\* two addresses name the same mailbox
SameMailbox(a, b) == a # NoVal /\ b # NoVal /\ a[2] = b[2]

\* the entries of the user in the attendee list of an event
EntriesOf(cal, eventId, userEmail) ==
    {i \in DOMAIN cal[eventId].attendees :
        SameMailbox(cal[eventId].attendees[i].email, userEmail)}

\* respond_to_invite is called with valid arguments for an authorized user
\* who is an attendee of the event, while the calendar API works
RespondsAsAttendee(req, userId) ==
    /\ ReachesAdapter(req, userId)
    /\ ~AdapterFails(req, userId)
    /\ EntriesOf(calendar, req.params.arguments.event_id, getUserEmail(userId)) # {}

\* C24: respond_to_invite is idempotent and the last write wins: a call
\* returns no error and leaves the subject's attendee status equal to its
\* response, whatever the status was; a call whose response is the status
\* the subject already has (the second of two equal calls) changes no
\* attendee status; no other attendee and no other event is changed.
C24_IdempotentResponse ==
    [][(ToolStep("respond_to_invite") /\ RespondsAsAttendee(last'.req, last'.userId)) =>
        LET e == last'.req.params.arguments.event_id
            response == last'.req.params.arguments.response
            mine == EntriesOf(calendar, e, getUserEmail(last'.userId))
        IN  /\ last'.hasResult /\ ~last'.out.isError
            /\ last'.out.structuredContent.success
            /\ DOMAIN calendar' = DOMAIN calendar
            /\ \A x \in DOMAIN calendar \ {e} : calendar'[x] = calendar[x]
            /\ Len(calendar'[e].attendees) = Len(calendar[e].attendees)
            /\ \A i \in DOMAIN calendar[e].attendees :
                  IF i \in mine
                  THEN calendar'[e].attendees[i] =
                          [calendar[e].attendees[i] EXCEPT !.responseStatus = response]
                  ELSE calendar'[e].attendees[i] = calendar[e].attendees[i]
            /\ (\A i \in mine : calendar[e].attendees[i].responseStatus = response) =>
                  calendar' = calendar]_vars

\* the second of two equal calls: respond_to_invite "declined" has succeeded
\* for an event the user had already declined, and changed nothing
C24_Witness ==
    /\ last.ep = "mcp"
    /\ last.req.method = "tools/call"
    /\ last.req.params.name = "respond_to_invite"
    /\ last.req.params.arguments = Arguments(Event1, "declined")
    /\ last.hasResult
    /\ ~last.out.isError
    /\ ~last.changed
    /\ \A i \in EntriesOf(calendar, Event1, MyEmail) :
          calendar[Event1].attendees[i].responseStatus = "declined"

----------------------------------------------------------------------------
(* A code and its redemption attempts *)

\* the last response is 400 invalid_grant to an exchange of the issued code
FailedOn(c) ==
    /\ last.ep = "token"
    /\ last.req.grant_type = "authorization_code"
    /\ last.req.code = c
    /\ last.error = "invalid_grant"
    /\ c \in DOMAIN codes

\* the last response carries a token for an exchange of the code
RedeemedOn(c) ==
    /\ last.ep = "token"
    /\ last.req.grant_type = "authorization_code"
    /\ last.req.code = c
    /\ last.status = 200

----------------------------------------------------------------------------
(* The attendees a response leaves alone *)

\* C30: respondToInvite changes only the caller's attendance: the patch of
\* a call leaves every attendee entry that is not the responding user's as
\* it is in the calendar at that moment, also when another attendee answered
\* after the call read the event, or when two calls for the event interleave.
C30_OnlyOwnAttendance ==
    [][\A call \in reading :
            RespondPatch(call) =>
                LET e == call.req.params.arguments.event_id
                IN  /\ Len(calendar'[e].attendees) = Len(calendar[e].attendees)
                    /\ \A i \in DOMAIN calendar[e].attendees :
                          ~SameMailbox(calendar[e].attendees[i].email, call.userEmail) =>
                              calendar'[e].attendees[i] = calendar[e].attendees[i]]_vars

----------------------------------------------------------------------------
(* The pending-invite filter.  The calendar starts as any combination of   *)
(* the kinds of event below; the user connects Google under either         *)
(* spelling of the address and lists the pending invitations, while the    *)
(* user and the other guest answer.                                        *)

EventKinds == {"pending", "organizer", "answered", "notInvited", "noAttendees", "noSummary"}

\* an event of the primary calendar, by what the user has to do with it
EventOfKind(kind, e) ==
    [summary |-> IF kind = "noSummary" THEN NoVal ELSE <<"summary", e[2]>>,
     hasAttendees |-> (kind # "noAttendees"),
     attendees |->
        CASE kind \in {"pending", "noSummary"} ->
                <<Attendee(OtherEmail, "accepted", TRUE),
                  Attendee(MyEmailAsInvited, "needsAction", FALSE)>>
          [] kind = "organizer" ->
                <<Attendee(MyEmail, "needsAction", TRUE),
                  Attendee(OtherEmail, "needsAction", FALSE)>>
          [] kind = "answered" ->
                <<Attendee(OtherEmail, "accepted", TRUE),
                  Attendee(MyEmail, "tentative", FALSE)>>
          [] kind = "notInvited" -> <<Attendee(OtherEmail, "needsAction", FALSE)>>
          [] OTHER -> <<>>]

CalendarInputs ==
    {[e \in {Event1, Event2, Event3} |-> EventOfKind(kinds[e], e)] :
        kinds \in [{Event1, Event2, Event3} -> EventKinds]}

InitInvites ==
    /\ clients = [c \in {SeedClientId} |-> [secret |-> SeedClientSecret, redirectUris |-> {}]]
    /\ codes = [c \in {} |-> NoVal]
    /\ tokens = [t \in {} |-> NoVal]
    /\ now = 0
    /\ grants = {}
    /\ inflight = {}
    /\ last = NoRequest
    /\ connected = {}
    /\ calendarUp = TRUE
    /\ registrations = <<>>
    /\ emails = [u \in {} |-> NoVal]
    /\ authExpired = FALSE
    /\ calendar \in CalendarInputs
    /\ reading = {}
    /\ polling = WidgetLoaded("AuthStatus")
    /\ cards = NoCards

InviteReqs ==
    {ToolCall("get_pending_reservations", Arguments(NoVal, ""), NoVal),
     ToolCall("respond_to_invite", Arguments(Event2, "declined"), NoVal)}

NextInvites ==
    \/ Direct(OAuthToken(SeedCredentialsReq))
    \/ \E email \in {MyEmail, MyEmailAsInvited} : GoogleCallback(TRUE, email)
    \/ CalendarFlip
    \/ OtherResponds(Event1, "declined")
    \/ \E req \in InviteReqs : Direct(Mcp(req))

SpecInvites == InitInvites /\ [][NextInvites]_vars

----------------------------------------------------------------------------
(* The invitations get_pending_reservations lists *)

\* the user appears among the attendees of the event, is not its organizer
\* and has not answered
AwaitsAnswerOf(event, userEmail) ==
    /\ event.hasAttendees
    /\ \E i \in DOMAIN event.attendees :
          /\ SameMailbox(event.attendees[i].email, userEmail)
          /\ ~event.attendees[i].organizer
          /\ event.attendees[i].responseStatus = "needsAction"

\* the place of an event in the calendar listing (0: it is not listed)
PlaceOf(e) ==
    IF \E i \in DOMAIN EventOrder : EventOrder[i] = e
    THEN CHOOSE i \in DOMAIN EventOrder : EventOrder[i] = e
    ELSE 0

\* C31: every invite getPendingInvites returns is a listed event in which
\* the calling user is an attendee, not the organizer, with status
\* needsAction; every listed event meeting this and having a summary is
\* returned; the invites come in the order of the listing, each once; and
\* totalCount is their number.
C31_PendingInviteFilter ==
    [][(/\ ToolStep("get_pending_reservations")
        /\ ReachesAdapter(last'.req, CallSubject(last'.req))
        /\ ~AdapterFails(last'.req, CallSubject(last'.req))) =>
            LET userEmail == getUserEmail(CallSubject(last'.req))
                payload == last'.out.structuredContent
                invites == payload.invites
            IN  /\ ~last'.out.isError
                /\ last'.adapter = "getPendingInvites"
                /\ \A k \in DOMAIN invites :
                      /\ PlaceOf(invites[k].eventId) # 0
                      /\ invites[k].eventId \in DOMAIN calendar
                      /\ AwaitsAnswerOf(calendar[invites[k].eventId], userEmail)
                      /\ invites[k].summary = calendar[invites[k].eventId].summary
                /\ \A i \in DOMAIN EventOrder :
                      (/\ EventOrder[i] \in DOMAIN calendar
                       /\ AwaitsAnswerOf(calendar[EventOrder[i]], userEmail)
                       /\ calendar[EventOrder[i]].summary \notin {NoVal, EmptyStr}) =>
                          \E k \in DOMAIN invites : invites[k].eventId = EventOrder[i]
                /\ \A j, k \in DOMAIN invites :
                      j < k => PlaceOf(invites[j].eventId) < PlaceOf(invites[k].eventId)
                /\ payload.totalCount = Len(invites)
                /\ calendar' = calendar]_vars

\* a listing that returned the first and the third event and left out the
\* second, which the user has answered
C31_Witness ==
    /\ last.ep = "mcp"
    /\ last.adapter = "getPendingInvites"
    /\ ~last.out.isError
    /\ last.out.structuredContent.totalCount = 2
    /\ last.out.structuredContent.invites[1].eventId = Event1
    /\ last.out.structuredContent.invites[2].eventId = Event3
    /\ AwaitsAnswerOf(calendar[Event1], MyEmail)
    /\ ~AwaitsAnswerOf(calendar[Event2], MyEmail)
    /\ \E i \in DOMAIN calendar[Event2].attendees :
          /\ SameMailbox(calendar[Event2].attendees[i].email, MyEmail)
          /\ calendar[Event2].attendees[i].responseStatus = "declined"

----------------------------------------------------------------------------
(* Tokens are issued, never refreshed *)

\* C32: a successful exchange at /oauth/token stores and answers a token
\* that was not in the registry before, and leaves the clientId and the
\* expiresAt of every earlier token as they were; no other step touches a
\* stored token either, so an earlier token is valid exactly until the
\* expiry it was issued with.
C32_NeverRefreshed ==
    [][/\ (TokenStep /\ last'.status = 200) =>
            /\ last'.out.access_token \notin DOMAIN tokens
            /\ last'.out.access_token \in DOMAIN tokens'
            /\ DOMAIN tokens' = DOMAIN tokens \cup {last'.out.access_token}
       /\ \A t \in DOMAIN tokens :
            /\ t \in DOMAIN tokens'
            /\ tokens'[t].clientId = tokens[t].clientId
            /\ tokens'[t].expiresAt = tokens[t].expiresAt
       /\ \A t \in DOMAIN tokens', g \in grants' :
            g.token = t => /\ tokens'[t].expiresAt = g.at + TokenTTL
                           /\ validateAccessToken(t)' = (now' < g.at + TokenTTL)]_vars

\* the same credentials were exchanged again after the clock moved: the
\* client holds two tokens with different expiries
C32_Witness ==
    /\ last.ep = "token" /\ last.status = 200
    /\ last.req.grant_type = "client_credentials"
    /\ \E t \in DOMAIN tokens :
          /\ t # last.out.access_token
          /\ tokens[t].clientId = tokens[last.out.access_token].clientId
          /\ tokens[t].expiresAt < tokens[last.out.access_token].expiresAt
          /\ validateAccessToken(t)

----------------------------------------------------------------------------
(* Authorize calls of dynamically registered clients.  Two clients         *)
(* register, each with one redirect URI; authorize is called for them      *)
(* with either URI and with none, and the codes are exchanged.             *)

RedirectRegisterReqs ==
    {[redirect_uris |-> <<u>>, token_endpoint_auth_method |-> "client_secret_basic"] :
        u \in {UriA, UriB}}

RedirectAuthorizeReqs ==
    {AuthorizeReq(id, "code", u, NoVal, NoVal) :
        id \in {ClientIdOf(1), ClientIdOf(2), UnknownClientId}, u \in {NoUri, UriA, UriB}}

RedirectTokenReqs ==
    {TokenReq("authorization_code", ClientIdOf(1), NoVal, NoHeader, CodeOf(k), u, NoVal) :
        k \in 1..MaxCodes, u \in {UriA, UriB}}

NextRedirect ==
    \/ Direct(Tick)
    \/ \E meta \in RedirectRegisterReqs : Register(meta)
    \/ \E q \in RedirectAuthorizeReqs : Direct(OAuthAuthorize(q))
    \/ \E req \in RedirectTokenReqs : Direct(OAuthToken(req))

SpecRedirect == Init /\ [][NextRedirect]_vars

----------------------------------------------------------------------------
(* The redirect target of /oauth/authorize *)

\* the redirect URI is one of those the client registered
IsRegisteredRedirect(clientId, uri) ==
    /\ clientId \in DOMAIN clients
    /\ uri \in clients[clientId].redirectUris

\* C33: GET /oauth/authorize issues a code and redirects only when the
\* presented redirect_uri is one of the redirectUris registered for the
\* presented client_id; with an unregistered redirect_uri no code is issued
\* and the answer is no redirect.
C33_RegisteredRedirect ==
    [][(AuthorizeStep /\ ~IsRegisteredRedirect(last'.req.client_id, last'.req.redirect_uri)) =>
            /\ codes' = codes
            /\ last'.status # 302
            /\ last'.out = NoVal]_vars

----------------------------------------------------------------------------
(* Consent.  Tools are called for the default subject and for a named      *)
(* one; the consent flows started from the URLs they were given end at     *)
(* /oauth/callback, with or without success.                               *)

Subjects == {DEFAULT_USER_ID, User1}

ConsentReqs ==
    {ToolCall(name, Arguments(NoVal, ""), sub) :
        name \in {"check_auth_status", "get_pending_reservations"}, sub \in {NoVal, User1}}

NextConsent ==
    \/ Direct(Tick)
    \/ Direct(OAuthToken(SeedCredentialsReq))
    \/ \E S \in Subjects, exchanged \in BOOLEAN :
          GoogleCallbackFrom(getAuthUrl(S), exchanged, MyEmail)
    \/ \E req \in ConsentReqs : Direct(Mcp(req))

SpecConsent == Init /\ [][NextConsent]_vars

----------------------------------------------------------------------------
(* Whom a consent authorizes *)

\* the last answer is the authorization-required payload of a tool called
\* for the subject, with the consent URL made for that subject
AskedConsent(S) ==
    /\ last.ep = "mcp"
    /\ last.tool = "get_pending_reservations"
    /\ CallSubject(last.req) = S
    /\ IsAuthorizationRequired(last)
    /\ last.out.structuredContent.authUrl = getAuthUrl(S)

\* the consent flow started from the subject's URL has completed at
\* /oauth/callback
ConsentCompleted(S) ==
    /\ last.ep = "callback"
    /\ last.out = "/?auth=success"
    /\ last.flow = getAuthUrl(S)

\* a check_auth_status or get_pending_reservations call for the subject was
\* answered as for a subject without authorization
SeesUnauthorized(S) ==
    /\ last.ep = "mcp"
    /\ CallSubject(last.req) = S
    /\ \/ /\ last.tool = "check_auth_status"
          /\ ~last.out.structuredContent.authenticated
       \/ /\ last.tool = "get_pending_reservations"
          /\ "authRequired" \in DOMAIN last.out.structuredContent

\* C34: once a tools/call for subject S has returned the authorization-
\* required payload with a consent URL and the consent flow started from that
\* URL has completed at /oauth/callback, every later check_auth_status or
\* get_pending_reservations call for S sees S authorized; and that callback
\* authorizes no other subject.
C34_ConsentReachesSubject ==
    /\ \A S \in Subjects :
          [](AskedConsent(S) => [](ConsentCompleted(S) => [](~SeesUnauthorized(S))))
    /\ [][\A S \in Subjects :
            (ConsentCompleted(S)' /\ last' # last) => connected' \ connected \subseteq {S}]_vars

----------------------------------------------------------------------------
(* Where tokens come from.  Every endpoint is called: registration,        *)
(* authorize, both grants of the token endpoint with good and bad          *)
(* credentials, the Google callback and logout, and the protocol endpoint  *)
(* with every token.                                                       *)

ProvenanceTokenReqs ==
    {TokenReq("authorization_code", SeedClientId, NoVal, NoHeader, CodeOf(k), UriA, v) :
        k \in 1..MaxCodes, v \in {NoVal, Verifier1}}
    \cup {TokenReq("client_credentials", NoVal, NoVal, h, NoVal, NoUri, NoVal) :
            h \in {SeedBasic, Basic(<<SeedClientId, SeedClientSecret, <<"junk">>>>),
                   Basic(<<SeedClientId, WrongSecret>>)}}

NextProvenance ==
    \/ Direct(Tick)
    \/ \E meta \in FlowRegisterReqs : Register(meta)
    \/ \E q \in GrantAuthorizeReqs : Direct(OAuthAuthorize(q))
    \/ \E req \in ProvenanceTokenReqs : Direct(OAuthToken(req))
    \/ GoogleCallback(TRUE, MyEmail)
    \/ AuthLogout
    \/ \E t \in TokenInputs : Direct(Mcp(McpCall(Bearer(t), "ping", NoParams, Id1)))

SpecProvenance == Init /\ [][NextProvenance]_vars

----------------------------------------------------------------------------
(* Token provenance *)

\* the step is a successful authorization_code exchange that consumes a
\* code of the registry
ConsumesIssuedCode ==
    /\ last'.req.grant_type = "authorization_code"
    /\ last'.req.code \in DOMAIN codes
    /\ ~codes[last'.req.code].consumed
    /\ codes'[last'.req.code].consumed

\* the step is a successful client_credentials exchange whose credentials
\* are those of a registered confidential client
ExchangesMatchingCredentials ==
    /\ last'.req.grant_type = "client_credentials"
    /\ PresentsRegisteredPair(last'.req)

\* C35: every access token the protocol endpoint accepts was created by an
\* earlier successful /oauth/token request, either an authorization_code
\* exchange that consumed a code issued by /oauth/authorize or a
\* client_credentials exchange with matching credentials; no other endpoint
\* creates tokens (or codes), and there is no token before the first exchange.
C35_TokenProvenance ==
    /\ [][tokens' # tokens =>
            /\ TokenStep
            /\ last'.status = 200
            /\ DOMAIN tokens' = DOMAIN tokens \cup {last'.out.access_token}
            /\ ConsumesIssuedCode \/ ExchangesMatchingCredentials]_vars
    /\ [][DOMAIN codes' # DOMAIN codes => AuthorizeStep]_vars
    /\ [][(McpStep /\ last'.status # 401) =>
            /\ last'.req.authorization.scheme = "Bearer"
            /\ \E g \in grants : g.token = last'.req.authorization.cred]_vars
    /\ [](\A t \in DOMAIN tokens : \E g \in grants : g.token = t)

----------------------------------------------------------------------------
(* Every method with every kind of params.  The calls carry a valid token; *)
(* their params are empty or those of a tool call, with a protocol         *)
(* version, a uri and a subject; the user connects Google in between.      *)

ParamShapes ==
    {NoParams,
     McpParams(<<"2025-03-26">>, "respond_to_invite", Arguments(Event1, "accepted"),
               WidgetUri, User1),
     McpParams(NoVal, "respond_to_invite", Arguments(Event1, "declined"), OtherUri, NoVal),
     McpParams(NoVal, "get_pending_reservations", Arguments(NoVal, ""), NoVal, Number7)}

AllMethodReqs ==
    {McpCall(Bearer(TokenOf(1)), m, p, Id1) : m \in KnownMethods, p \in ParamShapes}

NextReadOnly ==
    \/ Direct(Tick)
    \/ Direct(OAuthToken(SeedCredentialsReq))
    \/ GoogleCallback(TRUE, MyEmail)
    \/ \E req \in AllMethodReqs : Direct(Mcp(req))

SpecReadOnly == Init /\ [][NextReadOnly]_vars

----------------------------------------------------------------------------
(* The methods that only read *)

ReadOnlyMethods ==
    {"initialize", "initialized", "notifications/initialized", "ping", "shutdown",
     "tools/list", "resources/list", "resources/read", "resources/templates/list",
     "prompts/list", "completion/complete", "logging/setLevel"}

\* C36: the methods initialize, initialized, notifications/initialized, ping,
\* shutdown, tools/list, resources/list, resources/read,
\* resources/templates/list, prompts/list, completion/complete and
\* logging/setLevel change none of the client, code and token registries,
\* no calendar-authorization record and nothing in the calendar, and call no
\* function of the calendar adapter, whatever the params.
C36_ReadOnlyMethods ==
    [][(McpStep /\ CarriesValidBearer(last'.req) /\ last'.req.method \in ReadOnlyMethods) =>
            /\ clients' = clients /\ codes' = codes /\ tokens' = tokens
            /\ connected' = connected /\ emails' = emails
            /\ calendar' = calendar /\ reading' = reading
            /\ last'.adapter = "" /\ last'.tool = "" /\ ~last'.authChecked
            /\ ~last'.changed]_vars

\* tools/list was answered for params that name respond_to_invite with
\* valid arguments, while the user is connected and the invitation of the
\* first event is still unanswered
C36_Witness ==
    /\ last.ep = "mcp"
    /\ last.req.method = "tools/list"
    /\ last.code = 0
    /\ last.req.params.name = "respond_to_invite"
    /\ last.req.params.arguments = Arguments(Event1, "declined")
    /\ isAuthenticated(DEFAULT_USER_ID)
    /\ getUserEmail(DEFAULT_USER_ID) = MyEmail
    /\ calendar = InitialCalendar

----------------------------------------------------------------------------
(* The authorization widget.  Time is counted in poll intervals            *)
(* (POLL_INTERVAL_MS) since polling started; a timer callback runs when    *)
(* its time has come and before time moves on.                             *)

\* MAX_POLL_DURATION_MS / POLL_INTERVAL_MS (100 in the code)
MaxPollTicks == 3
\* check_auth_status calls that may be unanswered at a time
MaxPolls == 2

Components == {"AuthStatus", "AuthView"}

WidgetFrame ==
    UNCHANGED <<clients, codes, tokens, now, grants, inflight, last, connected, calendarUp,
                registrations, emails, authExpired, calendar, reading>>

\* a variant that leaves the interval timer running
StopPollingKeepingTimer(w) == [w EXCEPT !.isPolling = FALSE]

\* setIsPolling(false) with the timers cleared: clearInterval on the ref in
\* AuthStatus, the cleanup of the polling effect in AuthView
StopPolling(w) ==
    [w EXCEPT !.isPolling = FALSE, !.intervals = 0, !.timeouts = 0, !.due = 0]

\* handleConnect: the button is rendered while the widget is not connected
\* and not polling.  AuthStatus: startPolling sets isPolling, notes the start
\* time, polls at once and sets the interval.  AuthView: setIsPolling(true)
\* runs the effect, which sets the interval and the 5-minute timeout.
Connect ==
    /\ ~polling.authenticated
    /\ ~polling.isPolling
    /\ polling.polls < MaxPolls
    /\ polling' =
          IF polling.component = "AuthStatus"
          THEN [polling EXCEPT !.isPolling = TRUE, !.elapsed = 0, !.due = 0,
                               !.polls = @ + 1, !.intervals = @ + 1]
          ELSE [polling EXCEPT !.isPolling = TRUE, !.elapsed = 0, !.due = 0,
                               !.intervals = @ + 1, !.timeouts = @ + 1]
    /\ UNCHANGED cards
    /\ WidgetFrame

\* the timeout of AuthView is due: it was set when polling started
TimeoutDue == polling.timeouts > 0 /\ polling.elapsed = MaxPollTicks

\* one poll interval passes; every interval timer becomes due
Advance ==
    /\ polling.intervals > 0
    /\ polling.due = 0
    /\ ~TimeoutDue
    /\ polling.elapsed <= MaxPollTicks
    /\ polling' = [polling EXCEPT !.elapsed = @ + 1, !.due = polling.intervals]
    /\ UNCHANGED cards
    /\ WidgetFrame

\* the interval callback runs.  AuthStatus: pollAuthStatus stops polling when
\* Date.now() - pollStartTime > MAX_POLL_DURATION_MS (at the tick on the
\* limit the clock may or may not have passed it) and calls check_auth_status
\* otherwise.  AuthView: the callback calls check_auth_status.
IntervalFires(late) ==
    /\ polling.due > 0
    /\ IF /\ polling.component = "AuthStatus"
          /\ \/ polling.elapsed > MaxPollTicks
             \/ polling.elapsed = MaxPollTicks /\ late
       THEN polling' = StopPolling(polling)
       ELSE /\ polling.polls < MaxPolls
            /\ polling' = [polling EXCEPT !.due = @ - 1, !.polls = @ + 1]
    /\ UNCHANGED cards
    /\ WidgetFrame

\* setTimeout(() => setIsPolling(false), 5 * 60 * 1000) of AuthView runs,
\* after the interval callback that is due at the same time
TimeoutFires ==
    /\ TimeoutDue
    /\ polling.due = 0
    /\ polling' = StopPolling(polling)
    /\ UNCHANGED cards
    /\ WidgetFrame

\* structuredContent.authenticated of a check_auth_status answer
ReportsAuthenticated ==
    handleCheckAuthStatus(DEFAULT_USER_ID).value.structuredContent.authenticated

\* callTool('check_auth_status') resolves: an authenticated answer is kept
\* and stops polling, any other answer is dropped
PollResolves ==
    /\ polling.polls > 0
    /\ polling' =
          IF ReportsAuthenticated
          THEN [StopPolling(polling) EXCEPT !.authenticated = TRUE, !.polls = @ - 1]
          ELSE [polling EXCEPT !.polls = @ - 1]
    /\ UNCHANGED cards
    /\ WidgetFrame

\* callTool rejects: the catch logs the error
PollRejects ==
    /\ polling.polls > 0
    /\ polling' = [polling EXCEPT !.polls = @ - 1]
    /\ UNCHANGED cards
    /\ WidgetFrame

InitPolling ==
    /\ clients = [c \in {SeedClientId} |-> [secret |-> SeedClientSecret, redirectUris |-> {}]]
    /\ codes = [c \in {} |-> NoVal]
    /\ tokens = [t \in {} |-> NoVal]
    /\ now = 0
    /\ grants = {}
    /\ inflight = {}
    /\ last = NoRequest
    /\ connected = {}
    /\ calendarUp = TRUE
    /\ registrations = <<>>
    /\ emails = [u \in {} |-> NoVal]
    /\ authExpired = FALSE
    /\ calendar = InitialCalendar
    /\ reading = {}
    /\ polling \in {WidgetLoaded(c) : c \in Components}
    /\ cards = NoCards

\* the timers of the page run
TimerStep == Advance \/ (\E late \in BOOLEAN : IntervalFires(late)) \/ TimeoutFires
\* the calls of the widget settle
PollSettles == PollResolves \/ PollRejects

NextPolling ==
    \/ Connect
    \/ Advance
    \/ \E late \in BOOLEAN : IntervalFires(late)
    \/ TimeoutFires
    \/ PollResolves
    \/ PollRejects
    \/ \E exchanged \in BOOLEAN : GoogleCallback(exchanged, MyEmail)
    \/ AuthLogout

SpecPolling ==
    /\ InitPolling
    /\ [][NextPolling]_vars
    /\ WF_vars(TimerStep)
    /\ WF_vars(PollSettles)

----------------------------------------------------------------------------
(* Polling ends *)

\* C37: once connect has started polling, polling stops (no interval timer,
\* isPolling false) as soon as a poll reports authenticated: true, and
\* otherwise no later than the first tick after the maximum duration: no
\* poll is sent after it and polling always comes to an end; a failed poll
\* stops nothing; and at most one interval timer is active at a time, which
\* is so exactly while isPolling is true.
C37_PollingTerminates ==
    /\ [](/\ polling.intervals <= 1
          /\ polling.isPolling <=> polling.intervals = 1
          /\ polling.isPolling =>
                /\ polling.elapsed <= MaxPollTicks + 1
                /\ polling.elapsed = MaxPollTicks + 1 => polling.due > 0)
    /\ [][(PollResolves /\ ReportsAuthenticated) =>
            ~polling'.isPolling /\ polling'.intervals = 0 /\ polling'.authenticated]_vars
    /\ [][PollRejects =>
            /\ polling'.isPolling = polling.isPolling
            /\ polling'.intervals = polling.intervals
            /\ polling'.elapsed = polling.elapsed]_vars
    /\ [][polling'.polls > polling.polls => polling'.elapsed <= MaxPollTicks]_vars
    /\ polling.isPolling ~> ~polling.isPolling

\* polling was stopped by the duration limit with a poll still unanswered
\* and the user not connected
C37_Witness ==
    /\ ~polling.isPolling /\ polling.intervals = 0
    /\ ~polling.authenticated
    /\ polling.elapsed >= MaxPollTicks
    /\ polling.polls > 0
    /\ ~isAuthenticated(DEFAULT_USER_ID)

----------------------------------------------------------------------------
(* The invite cards.  A card is one mounted InviteCard, keyed by the       *)
(* eventId of its invite; the list is shown inline by                      *)
(* components/InvitesView.tsx and on the /invites route by                 *)
(* CalendarWidget.tsx.                                                     *)

\* invites on screen
MaxCards == 2

CardEvents == {<<"event", i>> : i \in 1..MaxCards}
CardViews == {"InvitesView", "CalendarWidget"}

\* useState<'idle' | 'loading' | 'accepted' | 'declined' | 'tentative' | 'error'>('idle')
CardMounted(view) ==
    [view |-> view, status |-> "idle", chosen |-> "none", calls |-> 0,
     pending |-> FALSE, mounted |-> TRUE]

\* a variant that offers the buttons again on the "Failed - Try again" badge
ShowsButtonsOnError(card) == card.mounted /\ card.status \in {"idle", "error"}

\* {status === 'idle' && ( ...Accept, Maybe, Decline... )}
ShowsButtons(card) == card.mounted /\ card.status = "idle"

\* handleRespond of the card up to its await: setStatus('loading') and the
\* respond_to_invite call of the view's handleRespond
Press(e, response) ==
    /\ e \in DOMAIN cards
    /\ ShowsButtons(cards[e])
    /\ cards' = [cards EXCEPT ![e] = [@ EXCEPT !.status = "loading", !.chosen = response,
                                               !.calls = @ + 1, !.pending = TRUE]]
    /\ UNCHANGED polling
    /\ WidgetFrame

\* callTool resolves: the card sets the response it sent as its status.  On
\* the /invites route an answer with structuredContent then navigates to
\* /result, which takes the list and its cards off the screen.
CallResolves(e, withContent) ==
    /\ e \in DOMAIN cards
    /\ cards[e].pending
    /\ cards' =
          [c \in DOMAIN cards |->
              LET answered == IF c = e
                              THEN [cards[c] EXCEPT
                                      !.pending = FALSE,
                                      !.status = IF cards[c].mounted THEN cards[c].chosen ELSE @]
                              ELSE cards[c]
              IN  IF cards[e].view = "CalendarWidget" /\ withContent
                  THEN [answered EXCEPT !.mounted = FALSE]
                  ELSE answered]
    /\ UNCHANGED polling
    /\ WidgetFrame

\* callTool rejects: the view rethrows and the card sets 'error'
CallRejects(e) ==
    /\ e \in DOMAIN cards
    /\ cards[e].pending
    /\ cards' = [cards EXCEPT ![e] = [@ EXCEPT !.pending = FALSE,
                                               !.status = IF cards[e].mounted THEN "error" ELSE @]]
    /\ UNCHANGED polling
    /\ WidgetFrame

InitCards ==
    /\ clients = [c \in {SeedClientId} |-> [secret |-> SeedClientSecret, redirectUris |-> {}]]
    /\ codes = [c \in {} |-> NoVal]
    /\ tokens = [t \in {} |-> NoVal]
    /\ now = 0
    /\ grants = {}
    /\ inflight = {}
    /\ last = NoRequest
    /\ connected = {DEFAULT_USER_ID}
    /\ calendarUp = TRUE
    /\ registrations = <<>>
    /\ emails = [u \in {DEFAULT_USER_ID} |-> MyEmail]
    /\ authExpired = FALSE
    /\ calendar = InitialCalendar
    /\ reading = {}
    /\ polling = WidgetLoaded("AuthStatus")
    /\ cards \in {[e \in CardEvents |-> CardMounted(view)] : view \in CardViews}

NextCards ==
    \/ \E e \in CardEvents, response \in Responses : Press(e, response)
    \/ \E e \in CardEvents, withContent \in BOOLEAN : CallResolves(e, withContent)
    \/ \E e \in CardEvents : CallRejects(e)

SpecCards == InitCards /\ [][NextCards]_vars

----------------------------------------------------------------------------
(* One response per card *)

\* C38: a card starts in idle; pressing a response button moves it to
\* loading; from loading it moves to exactly the response it sent when the
\* call resolves and to error when the call rejects; buttons exist only in
\* idle, so a card makes at most one respond_to_invite call and never
\* returns to idle.
C38_OneResponsePerCard ==
    /\ [](\A e \in DOMAIN cards :
            /\ cards[e].calls <= 1
            /\ cards[e].status = "idle" <=> cards[e].calls = 0
            /\ ShowsButtons(cards[e]) => cards[e].status = "idle"
            /\ cards[e].status \in Responses => cards[e].status = cards[e].chosen)
    /\ [][\A e \in DOMAIN cards :
            /\ cards[e].status # "idle" => cards'[e].status # "idle"
            /\ (cards[e].status = "idle" /\ cards'[e].status # "idle") =>
                   /\ cards'[e].status = "loading"
                   /\ cards'[e].calls = 1
                   /\ cards'[e].chosen \in Responses
            /\ cards'[e].status # cards[e].status /\ cards[e].status # "idle" =>
                   /\ cards[e].status = "loading"
                   /\ \/ (\E withContent \in BOOLEAN : CallResolves(e, withContent))
                            /\ cards'[e].status = cards[e].chosen
                      \/ CallRejects(e) /\ cards'[e].status = "error"
            /\ cards'[e].calls # cards[e].calls => cards[e].status = "idle"]_vars

\* one card shows the response it sent and another shows the error of a
\* rejected call, each after one call
C38_Witness ==
    \E e, f \in DOMAIN cards :
        /\ cards[e].status \in Responses /\ cards[e].calls = 1 /\ ~cards[e].pending
        /\ cards[f].status = "error" /\ cards[f].calls = 1 /\ ~cards[f].pending

====
